---- MODULE Spec2Model ----
(***************************************************************************)
(* A model of libmonitor's DDC/CI layer: the message framer of             *)
(* src/ddc/ci.rs (DdcCiMessage: builder, transmit_buffer, parse_buffer)    *)
(* and the device facade of src/ddc/mod.rs (get_vcp_feature,               *)
(* read_capabilities) running against a transport.                         *)
(*                                                                         *)
(* The specifications share the variables:                                 *)
(*   SpecCodec    builds, encodes and parses messages (ci.rs);             *)
(*   Spec         runs the facade operations, one transport call per step, *)
(*                and the change-notification iterator on top of them;     *)
(*   SpecListener runs the iterator alone, as examples/event_listener.rs;  *)
(*   SpecParse    applies the EDID and feature-reply parsers to slices     *)
(*                and the value conversions to words and values.           *)
(***************************************************************************)
EXTENDS Integers, Sequences, FiniteSets, TLC

VARIABLES
    \* ---- framer (SpecCodec)
    phase,      \* "build" | "wire" | "parsed": position in build/encode/parse
    built,      \* "none" | "ok" | "InvalidLength": what the builder holds
    msg,        \* the DdcCiMessage under construction
    nops,       \* builder calls applied since the constructor
    last_data,  \* the argument of the latest set_data call
    origin,     \* how buf was made: "none" | "encoded" | "response" | "monitor"
    buf,        \* the byte buffer handed to parse_buffer
    parsed,     \* parse_buffer's outcome on buf
    \* ---- facade (Spec)
    op,         \* the running facade operation, "none" when idle
    vtype,      \* the value type V of a running get_vcp_feature::<V>
    pc,         \* the facade's position: the transport call it performs next
    request,    \* the request message of the running operation
    reply,      \* the latest parsed reply
    retry,      \* get_vcp_feature's retry counter
    capabilities_buffer, \* read_capabilities' accumulator
    log,        \* the transport calls of the running operation, in order
    replies,    \* the messages parse_buffer returned in the running operation
    result,     \* the operation's outcome
    arg,        \* the value handed to a running set_vcp_feature
    \* ---- change-notification iterator (VcpCodeUpdateQueue)
    started,    \* the iterator's field of that name
    it_pc,      \* "none": no iterator lives, or the latest pull returned None;
                \* "ready": between two pulls;
                \* "query" | "read" | "finish" | "fetch": the facade call a
                \* pull waits for; "aborted": the program panicked
    first_pull, \* the running (or latest) pull began with started = false
    calls,      \* the facade calls of the running (or latest) pull, in order
    fifo,       \* the feature code the latest ActiveControl read returned
    item,       \* what the latest pull returned
    \* ---- parsers applied to a byte slice (SpecParse)
    parse_fn,     \* the parser applied last, "none" before the first call
    parse_input,  \* the byte slice it was given
    parse_output, \* what it returned
    \* ---- enumeration of the attached monitors (MonitorIterator)
    enum_pc,      \* "none": no enumeration runs; "iterating": the for loop
                  \* pulls; "ended": a pull returned None
    attached,     \* the devices LinuxDdcDeviceEnumerator::iter() collected
    inner_iter,   \* the devices the inner iterator has not yielded yet
    monitors      \* the MonitorDevices the loop body was given, in order

codec_vars == <<phase, built, msg, nops, last_data, origin, buf, parsed>>
queue_vars == <<started, it_pc, first_pull, calls, fifo, item>>
parse_vars == <<parse_fn, parse_input, parse_output>>
enum_vars == <<enum_pc, attached, inner_iter, monitors>>
facade_vars == <<op, vtype, pc, request, reply, retry, capabilities_buffer, log,
                 replies, result, arg, queue_vars>>
vars == <<phase, built, msg, nops, last_data, origin, buf, parsed,
          op, vtype, pc, request, reply, retry, capabilities_buffer, log,
          replies, result, arg, started, it_pc, first_pull, calls, fifo, item,
          parse_fn, parse_input, parse_output,
          enum_pc, attached, inner_iter, monitors>>

---------------------------------------------------------------------------
(* Bounds of the model *)

\* builder calls applied to one message after its constructor
MaxOps == 2
\* capability fragments one read_capabilities may receive
MaxFragments == 3
\* data bytes a monitor-made frame may declare beyond the data array's size
MaxOverrun == 1

---------------------------------------------------------------------------
(* 8-bit arithmetic *)

RECURSIVE Xor(_, _)
Xor(a, b) ==
    IF a = 0 THEN b
    ELSE IF b = 0 THEN a
    ELSE ((a + b) % 2) + 2 * Xor(a \div 2, b \div 2)

RECURSIVE BitOr(_, _)
BitOr(a, b) ==
    IF a = 0 THEN b
    ELSE IF b = 0 THEN a
    ELSE (IF a % 2 = 1 \/ b % 2 = 1 THEN 1 ELSE 0) + 2 * BitOr(a \div 2, b \div 2)

RECURSIVE BitAnd(_, _)
BitAnd(a, b) ==
    IF a = 0 \/ b = 0 THEN 0
    ELSE (IF a % 2 = 1 /\ b % 2 = 1 THEN 1 ELSE 0) + 2 * BitAnd(a \div 2, b \div 2)

\* u8 << 1 and u8 >> 1
Shl1(a) == (a * 2) % 256
Shr1(a) == a \div 2

\* Option<T>: None is the empty sequence, Some(x) the sequence <<x>>
None == <<>>
Some(x) == <<x>>
is_some(o) == o # <<>>

---------------------------------------------------------------------------
(* ci.rs: constants *)

DDC_SLAVE_SEND_ADDR == 111    \* 0x6f
DDC_SLAVE_RECV_ADDR == 110    \* 0x6e
DDC_MASTER_SEND_ADDR == 81    \* 0x51
DDC_MASTER_RECV_ADDR == 80    \* 0x50
LENGTH_PREFIX == 128          \* 0x80
DDC_MAX_DATA_FRAGMENT_LENGTH == 32
DDC_MAX_DATA_FRAGMENT_LENGTH_WITH_EXTRA == DDC_MAX_DATA_FRAGMENT_LENGTH + 4
I2C_DDC_RECV_BUFFER_SIZE == 64

---------------------------------------------------------------------------
(* ci.rs: DdcOpcode.  A value is [op |-> name, byte |-> b]; byte is 0 but   *)
(* for Unknown(b).                                                         *)

Op(name) == [op |-> name, byte |-> 0]
UnknownOp(b) == [op |-> "Unknown", byte |-> b]

KnownOpcodeNames ==
    {"IdentificationRequest", "IdentificationReply", "CapabilitiesRequest",
     "CapabilitiesReply", "DisplaySelfTestRequest", "DisplaySelfTestReply",
     "TimingRequest", "TimingReply", "VcpRequest", "VcpReply", "SetVcp",
     "ResetVcp", "TableReadRequest", "TableReadReply", "TableWrite",
     "EnableApplicationReport", "SaveCurrentSettings"}

\* impl From<&DdcOpcode> for u8
OpcodeToU8(o) ==
    CASE o.op = "Unknown" -> o.byte
      [] o.op = "IdentificationRequest" -> 241    \* 0xf1
      [] o.op = "IdentificationReply" -> 225      \* 0xe1
      [] o.op = "CapabilitiesRequest" -> 243      \* 0xf3
      [] o.op = "CapabilitiesReply" -> 227        \* 0xe3
      [] o.op = "DisplaySelfTestRequest" -> 177   \* 0xb1
      [] o.op = "DisplaySelfTestReply" -> 161     \* 0xa1
      [] o.op = "TimingRequest" -> 7
      [] o.op = "TimingReply" -> 6
      [] o.op = "VcpRequest" -> 1
      [] o.op = "VcpReply" -> 2
      [] o.op = "SetVcp" -> 3
      [] o.op = "ResetVcp" -> 9
      [] o.op = "TableReadRequest" -> 226         \* 0xe2
      [] o.op = "TableReadReply" -> 228           \* 0xe4
      [] o.op = "TableWrite" -> 231               \* 0xe7
      [] o.op = "EnableApplicationReport" -> 245  \* 0xf5
      [] o.op = "SaveCurrentSettings" -> 12       \* 0x0c

\* impl From<u8> for DdcOpcode
U8ToOpcode(value) ==
    CASE value = 241 -> Op("IdentificationRequest")
      [] value = 225 -> Op("IdentificationReply")
      [] value = 243 -> Op("CapabilitiesRequest")
      [] value = 227 -> Op("CapabilitiesReply")
      [] value = 177 -> Op("DisplaySelfTestRequest")
      [] value = 161 -> Op("DisplaySelfTestReply")
      [] value = 7 -> Op("TimingRequest")
      [] value = 6 -> Op("TimingReply")
      [] value = 1 -> Op("VcpRequest")
      [] value = 2 -> Op("VcpReply")
      [] value = 3 -> Op("SetVcp")
      [] value = 9 -> Op("ResetVcp")
      [] value = 226 -> Op("TableReadRequest")
      [] value = 228 -> Op("TableReadReply")
      [] value = 231 -> Op("TableWrite")
      [] value = 245 -> Op("EnableApplicationReport")
      [] value = 12 -> Op("SaveCurrentSettings")
      [] OTHER -> UnknownOp(value)

has_offset(o) ==
    o.op \in {"CapabilitiesRequest", "CapabilitiesReply", "TableReadRequest",
              "TableReadReply", "TableWrite"}

\* has_vcp_feature: "yes", "no", or "panic" for ResetVcp (unimplemented!)
has_vcp_feature(o) ==
    IF o.op = "ResetVcp" THEN "panic"
    ELSE IF o.op \in {"VcpRequest", "SetVcp", "TableReadRequest", "TableWrite"}
    THEN "yes"
    ELSE "no"

is_response(o) ==
    o.op \in {"IdentificationReply", "CapabilitiesReply", "DisplaySelfTestReply",
              "TimingReply", "VcpReply", "ResetVcp", "TableReadReply"}

---------------------------------------------------------------------------
(* mccs/features/mod.rs: VcpFeatureCode.  [code |-> name, byte |-> b]; byte *)
(* is 0 but for Unimplemented(b).                                          *)

Feature(name) == [code |-> name, byte |-> 0]
UnimplementedFeature(b) == [code |-> "Unimplemented", byte |-> b]

\* impl From<VcpFeatureCode> for u8
FeatureToU8(f) ==
    CASE f.code = "CodePage" -> 0
      [] f.code = "NewControlValue" -> 2
      [] f.code = "Luminance" -> 16        \* 0x10
      [] f.code = "Contrast" -> 18         \* 0x12
      [] f.code = "ActiveControl" -> 82    \* 0x52
      [] f.code = "InputSelect" -> 96      \* 0x60
      [] f.code = "OsdLanguage" -> 204     \* 0xcc
      [] f.code = "Unimplemented" -> f.byte
      [] f.code = "Unknown" -> 0

\* a decoder that knows no feature code
U8ToFeature_NoneKnown(value) == UnimplementedFeature(value)

\* impl From<u8> for VcpFeatureCode
U8ToFeature(value) ==
    CASE value = 0 -> Feature("CodePage")
      [] value = 2 -> Feature("NewControlValue")
      [] value = 16 -> Feature("Luminance")
      [] value = 18 -> Feature("Contrast")
      [] value = 82 -> Feature("ActiveControl")
      [] value = 96 -> Feature("InputSelect")
      [] value = 204 -> Feature("OsdLanguage")
      [] OTHER -> UnimplementedFeature(value)

---------------------------------------------------------------------------
(* ci.rs: DdcCiMessage *)

ZeroData == [i \in 1..DDC_MAX_DATA_FRAGMENT_LENGTH_WITH_EXTRA |-> 0]

Message(t, s) ==
    [target |-> t, sender |-> s, opcode |-> None, vcp_feature |-> None,
     offset |-> None, data_length |-> 0, data |-> ZeroData]

\* a length that forgets the two offset bytes
protocol_length_NoOffset(self) ==
    (self.data_length
        + (IF is_some(self.opcode) THEN 1 ELSE 0)
        + (IF is_some(self.vcp_feature) THEN 1 ELSE 0)) % 256

protocol_length(self) ==
    (self.data_length
        + (IF is_some(self.opcode) THEN 1 ELSE 0)
        + (IF is_some(self.vcp_feature) THEN 1 ELSE 0)
        + (IF is_some(self.offset) THEN 2 ELSE 0)) % 256

RECURSIVE XorData(_, _, _)
\* the loop "for i in 0..data_length { checksum ^= data[i] }"
XorData(checksum, self, i) ==
    IF i >= self.data_length THEN checksum
    ELSE XorData(Xor(checksum, self.data[i + 1]), self, i + 1)

\* the first term of the checksum: the virtual destination
ChecksumSeed(self) ==
    IF self.target = DDC_SLAVE_SEND_ADDR THEN DDC_MASTER_RECV_ADDR ELSE self.target

compute_checksum(self) ==
    LET c0 == ChecksumSeed(self)
        c1 == Xor(c0, self.sender)
        c2 == Xor(c1, BitOr(LENGTH_PREFIX, protocol_length(self)))
        c3 == IF is_some(self.opcode)
              THEN Xor(c2, OpcodeToU8(self.opcode[1])) ELSE c2
        c4 == IF is_some(self.vcp_feature)
              THEN Xor(c3, FeatureToU8(self.vcp_feature[1])) ELSE c3
        c5 == IF is_some(self.offset)
              THEN Xor(Xor(c4, self.offset[1] \div 256), self.offset[1] % 256)
              ELSE c4
    IN  XorData(c5, self, 0)

NullResponse == Message(DDC_SLAVE_SEND_ADDR, DDC_SLAVE_RECV_ADDR)

from_opcode(opcode) ==
    [Message(IF is_response(opcode) THEN DDC_SLAVE_SEND_ADDR ELSE DDC_SLAVE_RECV_ADDR,
             IF is_response(opcode) THEN DDC_SLAVE_RECV_ADDR ELSE DDC_MASTER_SEND_ADDR)
        EXCEPT !.opcode = Some(opcode)]

get_opcode(self) == self.opcode

set_vcp_feature(self, feature) == [self EXCEPT !.vcp_feature = Some(feature)]

set_offset(self, offset) == [self EXCEPT !.offset = Some(offset)]

\* u16 addition; the sum wraps at 2^16 (a release build)
\* an add_offset that overwrites the offset instead of advancing it
add_offset_Overwrite(self, add_offest) ==
    [self EXCEPT !.offset = Some(add_offest)]

add_offset(self, add_offest) ==
    IF is_some(self.offset)
    THEN [self EXCEPT !.offset = Some((self.offset[1] + add_offest) % 65536)]
    ELSE [self EXCEPT !.offset = Some(add_offest)]

get_offset(self) == self.offset

\* Result<Self, DdcCiProtocolError>: [kind |-> "Ok" | "InvalidLength", msg]
\* a set_data that checks the length against the size of the data array
set_data_ArrayBound(self, data) ==
    IF Len(data) > DDC_MAX_DATA_FRAGMENT_LENGTH_WITH_EXTRA
    THEN [kind |-> "InvalidLength", msg |-> self]
    ELSE [kind |-> "Ok",
          msg |-> [self EXCEPT
                     !.data_length = Len(data),
                     !.data = [i \in 1..DDC_MAX_DATA_FRAGMENT_LENGTH_WITH_EXTRA |->
                                 IF i <= Len(data) THEN data[i] ELSE self.data[i]]]]

set_data(self, data) ==
    IF Len(data) > DDC_MAX_DATA_FRAGMENT_LENGTH
    THEN [kind |-> "InvalidLength", msg |-> self]
    ELSE [kind |-> "Ok",
          msg |-> [self EXCEPT
                     !.data_length = Len(data),
                     !.data = [i \in 1..DDC_MAX_DATA_FRAGMENT_LENGTH_WITH_EXTRA |->
                                 IF i <= Len(data) THEN data[i] ELSE self.data[i]]]]

get_data(self) == SubSeq(self.data, 1, self.data_length)

get_data_len(self) == self.data_length

\* an addr that hands out the 8-bit target instead of the 7-bit bus address
addr_Unshifted(self) == self.target

addr(self) == Shr1(self.target)

RECURSIVE PushData(_, _, _)
\* the loop "for j in 0..data_length { data.push(self.data[j]) }"
PushData(data, self, j) ==
    IF j >= self.data_length THEN data
    ELSE PushData(Append(data, self.data[j + 1]), self, j + 1)

\* the offset bytes as transmit_buffer pushes them
OffsetBytes(offset) == <<offset \div 256, offset % 256>>

transmit_buffer(self) ==
    LET d0 == <<self.sender, BitOr(LENGTH_PREFIX, protocol_length(self))>>
        d1 == IF is_some(self.opcode)
              THEN Append(d0, OpcodeToU8(self.opcode[1])) ELSE d0
        d2 == IF is_some(self.vcp_feature)
              THEN Append(d1, FeatureToU8(self.vcp_feature[1])) ELSE d1
        d3 == IF is_some(self.offset)
              THEN d2 \o OffsetBytes(self.offset[1]) ELSE d2
        d4 == PushData(d3, self, 0)
    IN  Append(d4, compute_checksum(self))

---------------------------------------------------------------------------
(* ci.rs: parse_buffer.  An outcome is [kind, msg]: kind is "Ok", one of    *)
(* the DdcCiProtocolError variants ("InvalidChecksum",                     *)
(* "InvalidMessageFormat", "ParserError"), or "Abort" when the call panics *)
(* (unimplemented!, todo!, an index past the data array); msg is the       *)
(* message of an Ok and NullResponse otherwise.                            *)

Outcome(kind, message) == [kind |-> kind, msg |-> message]
Failed(kind) == [kind |-> kind, msg |-> NullResponse]

\* nom's le_u8 on the rest of the input: [ok, val, rest]
le_u8(i) ==
    IF Len(i) = 0 THEN [ok |-> FALSE, val |-> 0, rest |-> <<>>]
    ELSE [ok |-> TRUE, val |-> Head(i), rest |-> Tail(i)]

\* a stage of the parse: [kind, msg, rest, length]
Stage(kind, message, rest, length) ==
    [kind |-> kind, msg |-> message, rest |-> rest, length |-> length]

\* "if opcode.has_vcp_feature() && length >= 1 { ... }"
parse_vcp_feature(opcode, message, rest_data, length) ==
    LET hv == has_vcp_feature(opcode) IN
    IF hv = "panic" THEN Stage("Abort", message, rest_data, length)
    ELSE IF hv = "yes" /\ length >= 1
    THEN LET r == le_u8(rest_data) IN
         IF ~r.ok THEN Stage("ParserError", message, rest_data, length)
         ELSE Stage("Ok", set_vcp_feature(message, U8ToFeature(r.val)),
                    r.rest, length - 1)
    ELSE Stage("Ok", message, rest_data, length)

\* "if opcode.has_offset() && length >= 2 { ... }"
parse_offset(opcode, message, rest_data, length) ==
    IF has_offset(opcode) /\ length >= 2
    THEN LET hi == le_u8(rest_data)
             lo == le_u8(hi.rest)
         IN  IF ~hi.ok \/ ~lo.ok
             THEN Stage("ParserError", message, rest_data, length)
             ELSE Stage("Ok", set_offset(message, (hi.val * 256) + lo.val),
                        lo.rest, length - 2)
    ELSE Stage("Ok", message, rest_data, length)

RECURSIVE parse_data(_, _, _, _)
\* "for j in 0..length { le_u8(rest_data)?; message.data[j] = x }"
parse_data(j, length, message, rest_data) ==
    IF j >= length THEN Stage("Ok", message, rest_data, length)
    ELSE LET r == le_u8(rest_data) IN
         IF ~r.ok THEN Stage("ParserError", message, rest_data, length)
         ELSE IF j >= DDC_MAX_DATA_FRAGMENT_LENGTH_WITH_EXTRA
         THEN Stage("Abort", message, rest_data, length)
         ELSE parse_data(j + 1, length,
                         [message EXCEPT !.data[j + 1] = r.val], r.rest)

\* the branch "if length > 0 { ... }": opcode, feature, offset, data
parse_fields(message, length, i) ==
    LET ro == le_u8(i) IN
    IF ~ro.ok THEN Stage("ParserError", message, i, length)
    ELSE
    LET opcode == U8ToOpcode(ro.val)
        sf == parse_vcp_feature(opcode, message, ro.rest, length - 1)
    IN  IF sf.kind # "Ok" THEN sf
        ELSE
        LET so == parse_offset(opcode, sf.msg, sf.rest, sf.length) IN
        IF so.kind # "Ok" THEN so
        ELSE parse_data(0, so.length,
                        [so.msg EXCEPT !.opcode = Some(opcode),
                                       !.data_length = so.length],
                        so.rest)

\* the last step: read the checksum byte and compare
\* a final step that reads the checksum byte without comparing it
check_sum_step_Unchecked(message, i) ==
    LET r == le_u8(i) IN
    IF ~r.ok THEN Failed("ParserError") ELSE Outcome("Ok", message)

check_sum_step(message, i) ==
    LET r == le_u8(i) IN
    IF ~r.ok THEN Failed("ParserError")
    ELSE IF r.val = compute_checksum(message) THEN Outcome("Ok", message)
    ELSE Failed("InvalidChecksum")

\* the branch taken when the third byte carries LENGTH_PREFIX
parse_framed(target, sender, i) ==
    LET rl == le_u8(i)
        length == BitAnd(rl.val, 127)
        message == Message(target, sender)
        body == IF length > 0 THEN parse_fields(message, length, rl.rest)
                ELSE Stage("Ok", message, rl.rest, 0)
    IN  IF body.kind # "Ok" THEN Failed(body.kind)
        ELSE check_sum_step(body.msg, body.rest)

parse_buffer(data) ==
    LET rt == le_u8(data)
        rs == le_u8(rt.rest)
        rp == le_u8(rs.rest)    \* peek: rs.rest is not consumed
    IN  IF ~rt.ok \/ ~rs.ok \/ ~rp.ok THEN Failed("ParserError")
        ELSE IF BitAnd(rp.val, LENGTH_PREFIX) = LENGTH_PREFIX
        THEN parse_framed(rt.val, rs.val, rs.rest)
        ELSE IF rp.val = OpcodeToU8(Op("TimingReply")) THEN Failed("Abort")
        ELSE Failed("InvalidMessageFormat")

---------------------------------------------------------------------------
(* ci.rs tests: TestCiMessage::response, the wire form of a reply *)

response(a, data) == <<BitOr(Shl1(a), 1)>> \o data

---------------------------------------------------------------------------
(* Inputs of the framer *)

Fill(n, b) == [i \in 1..n |-> b]

CodecOpcodes == {Op(n) : n \in KnownOpcodeNames} \cup {UnknownOp(255)}
CodecFeatures == {Feature("Luminance"), Feature("Unknown"), UnimplementedFeature(224)}
CodecOffsets == {0, 258}
CodecAddOffsets == {DDC_MAX_DATA_FRAGMENT_LENGTH}
CodecData ==
    {<<>>, <<0, 50>>, <<7>>,
     Fill(DDC_MAX_DATA_FRAGMENT_LENGTH, 65),
     Fill(DDC_MAX_DATA_FRAGMENT_LENGTH + 1, 65)}

\* Bytes a monitor may put on the bus: [target, sender, third byte, ...].
\* A frame declares `declared` bytes after its length byte and carries an
\* opcode byte and n data bytes, then a checksum byte that is right or wrong.
RECURSIVE FoldXor(_, _)
FoldXor(seed, bytes) ==
    IF bytes = <<>> THEN seed ELSE FoldXor(Xor(seed, Head(bytes)), Tail(bytes))

RawOpcodes == {2, 227, 9, 255, 1}
RawDataLens ==
    {0, 1, 2, 7, DDC_MAX_DATA_FRAGMENT_LENGTH, DDC_MAX_DATA_FRAGMENT_LENGTH + 1,
     DDC_MAX_DATA_FRAGMENT_LENGTH_WITH_EXTRA}
        \cup (DDC_MAX_DATA_FRAGMENT_LENGTH_WITH_EXTRA + 1
              .. DDC_MAX_DATA_FRAGMENT_LENGTH_WITH_EXTRA + MaxOverrun)
RawFills == {0, 65}

RawBody(opbyte, n, fill) ==
    <<DDC_SLAVE_RECV_ADDR, LENGTH_PREFIX + 1 + n, opbyte>> \o Fill(n, fill)

\* the frame with its checksum byte (good) or another byte (not good)
RawFrame(opbyte, n, fill, good) ==
    LET body == RawBody(opbyte, n, fill)
        sum == FoldXor(DDC_MASTER_RECV_ADDR, body)
    IN  <<DDC_SLAVE_SEND_ADDR>> \o body \o <<IF good THEN sum ELSE (sum + 1) % 256>>

\* the frame that declares no bytes at all
RawNull(good) ==
    LET body == <<DDC_SLAVE_RECV_ADDR, LENGTH_PREFIX>>
        sum == FoldXor(DDC_MASTER_RECV_ADDR, body)
    IN  <<DDC_SLAVE_SEND_ADDR>> \o body \o <<IF good THEN sum ELSE (sum + 1) % 256>>

\* a buffer as received: the frame as is, cut short by k bytes, or padded
\* with zeros to the receive buffer's size
Shapes == {"exact", "cut1", "cut3", "padded"}
Shaped(frame, shape) ==
    CASE shape = "exact" -> frame
      [] shape = "cut1" -> SubSeq(frame, 1, Len(frame) - 1)
      [] shape = "cut3" -> SubSeq(frame, 1, Len(frame) - 3)
      [] shape = "padded" ->
            frame \o Fill(I2C_DDC_RECV_BUFFER_SIZE - Len(frame), 0)

\* buffers with no length byte: the third byte has its top bit clear
UnframedBuffers ==
    {<<DDC_SLAVE_SEND_ADDR, DDC_SLAVE_RECV_ADDR, b, 0, 0>> : b \in {5, 6, 127, 0}}
        \cup {<<>>, <<DDC_SLAVE_SEND_ADDR>>, <<DDC_SLAVE_SEND_ADDR, DDC_SLAVE_RECV_ADDR>>}

---------------------------------------------------------------------------
(* SpecCodec: build a message, encode it, parse a buffer *)

NoOutcome == Outcome("none", NullResponse)
\* a converted VCP value: [ty, name, a, b] (see from_u32)
NoValue == [ty |-> "", name |-> "", a |-> 0, b |-> 0]
\* a facade operation's outcome: kind is "none", "Ok", "Err" or "Abort"
NoResult == [kind |-> "none", err |-> "", value |-> NoValue, text |-> <<>>]

CodecInit ==
    /\ phase = "build"
    /\ built = "none"
    /\ msg = NullResponse
    /\ nops = 0
    /\ last_data = <<>>
    /\ origin = "none"
    /\ buf = <<>>
    /\ parsed = NoOutcome

FacadeInit ==
    /\ op = "none"
    /\ vtype = ""
    /\ pc = "idle"
    /\ request = NullResponse
    /\ reply = NullResponse
    /\ retry = 0
    /\ capabilities_buffer = <<>>
    /\ log = <<>>
    /\ replies = <<>>
    /\ result = NoResult
    /\ arg = NoValue

\* Option<Result<VcpFeatureValue, DdcError>>: kind is "none" while no pull
\* has returned, "None", "Some", or "Abort" when the pull panicked
NoItem == [kind |-> "none", res |-> NoResult]

QueueInit ==
    /\ started = FALSE
    /\ it_pc = "none"
    /\ first_pull = FALSE
    /\ calls = <<>>
    /\ fifo = Feature("CodePage")
    /\ item = NoItem

ParseInit ==
    /\ parse_fn = "none"
    /\ parse_input = <<>>
    /\ parse_output = [kind |-> "none"]

EnumInit ==
    /\ enum_pc = "none"
    /\ attached = <<>>
    /\ inner_iter = <<>>
    /\ monitors = <<>>

Init == CodecInit /\ FacadeInit /\ QueueInit /\ ParseInit /\ EnumInit

\* DdcCiMessage::NullResponse()
Call_NullResponse ==
    /\ phase = "build" /\ built = "none"
    /\ msg' = NullResponse
    /\ built' = "ok"
    /\ UNCHANGED <<phase, nops, last_data, origin, buf, parsed>>
    /\ UNCHANGED <<facade_vars, parse_vars, enum_vars>>

\* DdcCiMessage::from_opcode(opcode)
Call_from_opcode(opcode) ==
    /\ phase = "build" /\ built = "none"
    /\ msg' = from_opcode(opcode)
    /\ built' = "ok"
    /\ UNCHANGED <<phase, nops, last_data, origin, buf, parsed>>
    /\ UNCHANGED <<facade_vars, parse_vars, enum_vars>>

\* the builder calls apply to a message made by from_opcode
Buildable ==
    /\ phase = "build" /\ built = "ok" /\ nops < MaxOps
    /\ is_some(msg.opcode)

Call_set_vcp_feature(feature) ==
    /\ Buildable
    /\ msg' = set_vcp_feature(msg, feature)
    /\ nops' = nops + 1
    /\ UNCHANGED <<phase, built, last_data, origin, buf, parsed>>
    /\ UNCHANGED <<facade_vars, parse_vars, enum_vars>>

Call_set_offset(offset) ==
    /\ Buildable
    /\ msg' = set_offset(msg, offset)
    /\ nops' = nops + 1
    /\ UNCHANGED <<phase, built, last_data, origin, buf, parsed>>
    /\ UNCHANGED <<facade_vars, parse_vars, enum_vars>>

Call_add_offset(add_offest) ==
    /\ Buildable
    /\ msg' = add_offset(msg, add_offest)
    /\ nops' = nops + 1
    /\ UNCHANGED <<phase, built, last_data, origin, buf, parsed>>
    /\ UNCHANGED <<facade_vars, parse_vars, enum_vars>>

\* set_data consumes the message: on InvalidLength nothing is left to build on
Call_set_data(data) ==
    /\ Buildable
    /\ LET r == set_data(msg, data) IN
         /\ built' = IF r.kind = "Ok" THEN "ok" ELSE r.kind
         /\ msg' = IF r.kind = "Ok" THEN r.msg ELSE NullResponse
    /\ last_data' = data
    /\ nops' = nops + 1
    /\ UNCHANGED <<phase, origin, buf, parsed>>
    /\ UNCHANGED <<facade_vars, parse_vars, enum_vars>>

\* the wire form: the target byte, then transmit_buffer()
Encode ==
    /\ phase = "build" /\ built = "ok"
    /\ buf' = <<msg.target>> \o transmit_buffer(msg)
    /\ origin' = "encoded"
    /\ phase' = "wire"
    /\ UNCHANGED <<built, msg, nops, last_data, parsed>>
    /\ UNCHANGED <<facade_vars, parse_vars, enum_vars>>

\* the wire form as the tests build it: response(addr(), transmit_buffer())
EncodeResponse ==
    /\ phase = "build" /\ built = "ok"
    /\ buf' = response(addr(msg), transmit_buffer(msg))
    /\ origin' = "response"
    /\ phase' = "wire"
    /\ UNCHANGED <<built, msg, nops, last_data, parsed>>
    /\ UNCHANGED <<facade_vars, parse_vars, enum_vars>>

\* a buffer that comes from a monitor
MonitorBytes(b) ==
    /\ phase = "build" /\ built = "none"
    /\ buf' = b
    /\ origin' = "monitor"
    /\ phase' = "wire"
    /\ UNCHANGED <<built, msg, nops, last_data, parsed>>
    /\ UNCHANGED <<facade_vars, parse_vars, enum_vars>>

\* DdcCiMessage::parse_buffer(&buf)
Call_parse_buffer ==
    /\ phase = "wire"
    /\ parsed' = parse_buffer(buf)
    /\ phase' = "parsed"
    /\ UNCHANGED <<built, msg, nops, last_data, origin, buf>>
    /\ UNCHANGED <<facade_vars, parse_vars, enum_vars>>

\* the values are dropped
CodecReset ==
    /\ phase = "parsed" \/ built = "InvalidLength"
    /\ phase' = "build"
    /\ built' = "none"
    /\ msg' = NullResponse
    /\ nops' = 0
    /\ last_data' = <<>>
    /\ origin' = "none"
    /\ buf' = <<>>
    /\ parsed' = NoOutcome
    /\ UNCHANGED <<facade_vars, parse_vars, enum_vars>>

NextCodec ==
    \/ Call_NullResponse
    \/ \E opcode \in CodecOpcodes : Call_from_opcode(opcode)
    \/ \E feature \in CodecFeatures : Call_set_vcp_feature(feature)
    \/ \E offset \in CodecOffsets : Call_set_offset(offset)
    \/ \E a \in CodecAddOffsets : Call_add_offset(a)
    \/ \E data \in CodecData : Call_set_data(data)
    \/ Encode
    \/ EncodeResponse
    \/ \E opbyte \in RawOpcodes, n \in RawDataLens, fill \in RawFills,
          good \in BOOLEAN, shape \in Shapes :
            MonitorBytes(Shaped(RawFrame(opbyte, n, fill, good), shape))
    \/ \E b \in UnframedBuffers : MonitorBytes(b)
    \/ \E good \in BOOLEAN, shape \in {"exact", "cut1", "padded"} :
            MonitorBytes(Shaped(RawNull(good), shape))
    \/ Call_parse_buffer
    \/ CodecReset

SpecCodec == Init /\ [][NextCodec]_vars

---------------------------------------------------------------------------
(* ci.rs: parse_feature_reply.  [kind |-> "Ok" | "Failure", result_code,    *)
(* vcp_feature, type_code, vcp_data]; every nom error ends as a            *)
(* ProtocolError(ParserError) in the caller.                               *)

NoFeatureReply ==
    [kind |-> "Failure", result_code |-> "", vcp_feature |-> Feature("CodePage"),
     type_code |-> "", vcp_data |-> 0]

parse_result_code(rc) ==
    CASE rc = 0 -> "NoError" [] rc = 1 -> "UnsupportedCode" [] OTHER -> "Failure"

parse_vcp_type(ty) ==
    CASE ty = 0 -> "SetParameter" [] ty = 1 -> "Momentary" [] OTHER -> "Failure"

\* a reply parser that takes the low word's bytes in the other order
parse_feature_reply_LowFirst(i) ==
    IF Len(i) < 1 THEN NoFeatureReply
    ELSE IF parse_result_code(i[1]) = "Failure" THEN NoFeatureReply
    ELSE IF Len(i) < 3 THEN NoFeatureReply
    ELSE IF parse_vcp_type(i[3]) = "Failure" THEN NoFeatureReply
    ELSE IF Len(i) < 7 THEN NoFeatureReply
    ELSE [kind |-> "Ok",
          result_code |-> parse_result_code(i[1]),
          vcp_feature |-> U8ToFeature(i[2]),
          type_code |-> parse_vcp_type(i[3]),
          vcp_data |-> (i[4] * 16777216) + (i[5] * 65536) + (i[7] * 256) + i[6]]

parse_feature_reply(i) ==
    IF Len(i) < 1 THEN NoFeatureReply
    ELSE IF parse_result_code(i[1]) = "Failure" THEN NoFeatureReply
    ELSE IF Len(i) < 3 THEN NoFeatureReply
    ELSE IF parse_vcp_type(i[3]) = "Failure" THEN NoFeatureReply
    ELSE IF Len(i) < 7 THEN NoFeatureReply
    ELSE [kind |-> "Ok",
          result_code |-> parse_result_code(i[1]),
          vcp_feature |-> U8ToFeature(i[2]),
          type_code |-> parse_vcp_type(i[3]),
          vcp_data |-> (i[4] * 16777216) + (i[5] * 65536) + (i[6] * 256) + i[7]]

---------------------------------------------------------------------------
(* mccs/features/mod.rs: the value types V and their From<u32>.            *)
(* A value is [ty, name, a, b]: LuminanceValue has a = max, b = val;       *)
(* NewControlValue has its variant in name; VcpFeatureCode has the code    *)
(* in name and the byte of Unimplemented in a.                             *)

ValueTypes ==
    {"LuminanceValue", "ContrastValue", "NewControlValue", "VcpFeatureCode",
     "OsdLanguages", "InputSource"}

\* enum OsdLanguages, in the order of its codes 0x00..0x25
OsdLanguageNames ==
    <<"Ignored", "ChineseTraditional", "English", "French", "German", "Italian",
      "Japanese", "Korean", "PortuguesePortugal", "Russian", "Spanish", "Swedish",
      "Turkish", "ChineseSimplified", "PortugueseBrazil", "Arabic", "Bulgarian",
      "Croatian", "Czech", "Danish", "Dutch", "Estonian", "Finnish", "Greek",
      "Hebrew", "Hindi", "Hungarian", "Lativan", "Lithuanian", "Norwegian",
      "Polish", "Romanian", "Serbian", "Slovak", "Slovenian", "Thai", "Ukrainian",
      "Vietnamese">>

\* enum InputSource, in the order of its codes 0x01..0x12
InputSourceNames ==
    <<"Analog1", "Analog2", "Dvi1", "Dvi2", "Composite1", "Composite2", "SVideo1",
      "SVideo2", "Tuner1", "Tuner2", "Tuner3", "Component1", "Component2",
      "Component3", "DisplayPort1", "DisplayPort2", "Hdmi1", "Hdmi2">>

\* the position of a name in a table of names, 0 when it is not there
IndexOf(names, n) ==
    IF \E i \in DOMAIN names : names[i] = n
    THEN CHOOSE i \in DOMAIN names : names[i] = n
    ELSE 0

\* V::vcp_feature()
vcp_feature_of(V) ==
    CASE V = "LuminanceValue" -> Feature("Luminance")
      [] V = "ContrastValue" -> Feature("Contrast")
      [] V = "NewControlValue" -> Feature("NewControlValue")
      [] V = "VcpFeatureCode" -> Feature("ActiveControl")
      [] V = "OsdLanguages" -> Feature("OsdLanguage")
      [] V = "InputSource" -> Feature("InputSelect")

\* a decode that keeps both bytes of the current value
continuous_from_u32_WholeValue(V, value) ==
    [ty |-> V, name |-> "", a |-> (value \div 65536) % 65536, b |-> value % 65536]

\* impl From<u32> for LuminanceValue and for ContrastValue:
\* max: (value >> 16) as u16, val: (value & 0xff) as u16
continuous_from_u32(V, value) ==
    [ty |-> V, name |-> "", a |-> (value \div 65536) % 65536, b |-> value % 256]

\* impl From<u32> for V: [kind |-> "Ok" | "Abort", value]
from_u32(V, value) ==
    CASE V = "LuminanceValue" -> [kind |-> "Ok", value |-> continuous_from_u32(V, value)]
      [] V = "NewControlValue" ->
            IF value % 16 = 1
            THEN [kind |-> "Ok", value |-> [ty |-> V, name |-> "Finished", a |-> 0, b |-> 0]]
            ELSE IF value % 16 = 2
            THEN [kind |-> "Ok",
                  value |-> [ty |-> V, name |-> "NewControlValuesPresent", a |-> 0, b |-> 0]]
            ELSE [kind |-> "Abort", value |-> NoValue]
      [] V = "VcpFeatureCode" ->
            LET f == U8ToFeature(value % 256) IN
            [kind |-> "Ok", value |-> [ty |-> V, name |-> f.code, a |-> f.byte, b |-> 0]]
      [] V = "ContrastValue" -> [kind |-> "Ok", value |-> continuous_from_u32(V, value)]
      [] V = "OsdLanguages" ->
            LET w == value % 65536 IN
            [kind |-> "Ok",
             value |-> IF w < Len(OsdLanguageNames)
                       THEN [ty |-> V, name |-> OsdLanguageNames[w + 1], a |-> 0, b |-> 0]
                       ELSE [ty |-> V, name |-> "UndefinedLanguage", a |-> w, b |-> 0]]
      [] V = "InputSource" ->
            LET w == value % 256 IN
            [kind |-> "Ok",
             value |-> IF w >= 1 /\ w <= Len(InputSourceNames)
                       THEN [ty |-> V, name |-> InputSourceNames[w], a |-> 0, b |-> 0]
                       ELSE [ty |-> V, name |-> "Reserved", a |-> w, b |-> 0]]

\* impl From<V> for u32
to_u32(v) ==
    CASE v.ty \in {"LuminanceValue", "ContrastValue"} -> (v.a * 65536) + v.b
      [] v.ty = "NewControlValue" ->
            (IF v.name = "NewControlValuesPresent" THEN 2 ELSE 1)
      [] v.ty = "VcpFeatureCode" -> FeatureToU8([code |-> v.name, byte |-> v.a])
      [] v.ty = "OsdLanguages" ->
            (IF v.name = "UndefinedLanguage" THEN v.a
             ELSE IndexOf(OsdLanguageNames, v.name) - 1)
      [] v.ty = "InputSource" ->
            (IF v.name = "Reserved" THEN v.a ELSE IndexOf(InputSourceNames, v.name))

\* trait VcpValue: the four bytes of a value
mh(v) == (to_u32(v) \div 16777216) % 256
ml(v) == (to_u32(v) \div 65536) % 256
\* a vh that takes the high byte of the whole word
vh_TopByte(v) == mh(v)
vh(v) == (to_u32(v) \div 256) % 256
vl(v) == to_u32(v) % 256

---------------------------------------------------------------------------
(* The transport (trait DdcCommunicationBase) and the monitor behind it *)

Call(name, a, data, ms) == [call |-> name, addr |-> a, data |-> data, ms |-> ms]

\* linux.rs receive: byte 0 is (addr << 1) | 1, the rest is read from the bus
receive(a, bytes) ==
    <<BitOr(Shl1(a), 1)>> \o bytes
        \o Fill(I2C_DDC_RECV_BUFFER_SIZE - 1 - Len(bytes), 0)

\* what a monitor writes: sender, length byte, the field bytes, a checksum
MonitorFrame(sender, fields, good) ==
    LET body == <<sender, LENGTH_PREFIX + Len(fields)>> \o fields
        sum == FoldXor(DDC_MASTER_RECV_ADDR, body)
    IN  body \o <<IF good THEN sum ELSE (sum + 1) % 256>>

\* payloads of a VcpReply: result code, feature, type, MH, ML, VH, VL
VcpPayloads ==
    {<<0, 16, 0, 0, 100, 0, 50>>, <<0, 16, 0, 0, 100, 1, 50>>,
     <<0, 2, 0, 0, 0, 0, 2>>, <<0, 2, 0, 0, 0, 0, 1>>, <<0, 2, 0, 0, 0, 0, 0>>,
     <<0, 82, 1, 0, 0, 0, 16>>, <<0, 82, 1, 0, 0, 0, 96>>,
     <<0, 82, 1, 0, 0, 0, 204>>, <<1, 16, 0, 0, 0, 0, 0>>,
     <<5, 16, 0, 0, 0, 0, 0>>, <<0, 16, 9, 0, 0, 0, 0>>, <<0, 16, 0>>}

\* replies to a VcpRequest
VcpReplyFrames ==
    {MonitorFrame(DDC_SLAVE_RECV_ADDR, <<>>, TRUE),
     MonitorFrame(DDC_SLAVE_RECV_ADDR, <<>>, FALSE),
     MonitorFrame(DDC_MASTER_SEND_ADDR, <<>>, TRUE),
     MonitorFrame(DDC_SLAVE_RECV_ADDR, <<227, 0, 0, 65>>, TRUE),
     MonitorFrame(DDC_SLAVE_RECV_ADDR, <<9>>, TRUE),
     <<DDC_SLAVE_RECV_ADDR, 5, 0>>}
        \cup {MonitorFrame(DDC_SLAVE_RECV_ADDR, <<2>> \o p, TRUE) : p \in VcpPayloads}

\* replies to a CapabilitiesRequest: the offset echoed, then n bytes of text
CapabilityLens == {0, 1, DDC_MAX_DATA_FRAGMENT_LENGTH}
CapabilityText(n, k) == Fill(n, 64 + k)
CapabilitiesReplyFrame(offset, n, k) ==
    MonitorFrame(DDC_SLAVE_RECV_ADDR,
                 <<227, offset \div 256, offset % 256>> \o CapabilityText(n, k), TRUE)
\* frames that end the read: a null response and frames the parser refuses
EndingCapabilityFrames ==
    {MonitorFrame(DDC_SLAVE_RECV_ADDR, <<>>, TRUE),
     MonitorFrame(DDC_SLAVE_RECV_ADDR, <<227, 0, 0, 65>>, FALSE),
     MonitorFrame(DDC_SLAVE_RECV_ADDR, <<227>>, TRUE),
     MonitorFrame(DDC_SLAVE_RECV_ADDR, <<9>>, TRUE)}
\* the frames a monitor may answer with after k replies at the given offset;
\* after MaxFragments replies it sends no further payload
CapabilityFrames(offset, k) ==
    EndingCapabilityFrames
        \cup {CapabilitiesReplyFrame(offset, 0, k)}
        \cup IF k < MaxFragments
             THEN {CapabilitiesReplyFrame(offset, n, k) : n \in CapabilityLens}
                    \cup {MonitorFrame(DDC_SLAVE_RECV_ADDR, <<2, 1, 16, 0>>, TRUE)}
             ELSE {}

---------------------------------------------------------------------------
(* ddc/mod.rs: the facade (impl DdcCiDevice for X), one transport call per  *)
(* step.  Each step runs from one transport call to just before the next.  *)

Ok(value, text) == [kind |-> "Ok", err |-> "", value |-> value, text |-> text]
\* an error that carries the capability text read so far
Err_WithPartialText(e) ==
    [kind |-> "Err", err |-> e, value |-> NoValue, text |-> capabilities_buffer]
Err(e) == [kind |-> "Err", err |-> e, value |-> NoValue, text |-> <<>>]
Aborted == [kind |-> "Abort", err |-> "", value |-> NoValue, text |-> <<>>]

\* DdcCiError::ProtocolError(err)
ProtocolError(kind) == Err("ProtocolError(" \o kind \o ")")

\* the operation returns: nothing of it runs any more
Finish(r) ==
    /\ result' = r
    /\ pc' = "done"

\* the retries a null reply gets: "let mut retry = 3"
RetryCount == 3
get_vcp_delay_ms == 40
\* read_capabilities waiting no longer than get_vcp_feature
read_capabilities_delay_ms_Short == get_vcp_delay_ms
read_capabilities_delay_ms == 50

\* get_vcp_feature, lines 160-175: what the final reply decodes to
decode_vcp_reply(V, get_vcp_reply) ==
    IF get_opcode(get_vcp_reply) = Some(Op("VcpReply"))
    THEN LET vcp_resp == parse_feature_reply(get_data(get_vcp_reply)) IN
         IF vcp_resp.kind # "Ok" THEN ProtocolError("ParserError")
         ELSE IF vcp_resp.result_code = "UnsupportedCode"
         THEN Err("UnsupportedVcpFeature")
         ELSE LET v == from_u32(V, vcp_resp.vcp_data) IN
              IF v.kind = "Ok" THEN Ok(v.value, <<>>) ELSE Aborted
    ELSE Err("UnexpectedReplyCode")

\* the loop condition "retry > 0 && get_vcp_reply == NullResponse()"
\* a loop condition that retries whatever the reply was
retry_again_Always(n, get_vcp_reply) == n > 0

retry_again(n, get_vcp_reply) == n > 0 /\ get_vcp_reply = NullResponse

\* a facade operation starts with nothing left of the one before it
Fresh ==
    /\ reply' = NullResponse
    /\ retry' = 0
    /\ capabilities_buffer' = <<>>
    /\ log' = <<>>
    /\ replies' = <<>>

\* get_vcp_feature::<V>() up to its first transport call
Begin_get_vcp_feature(V) ==
    /\ op' = "get_vcp_feature"
    /\ vtype' = V
    /\ arg' = NoValue
    /\ request' = set_vcp_feature(from_opcode(Op("VcpRequest")), vcp_feature_of(V))
    /\ pc' = "gv_transmit0"
    /\ result' = NoResult
    /\ Fresh

\* the channel is borrowed mutably while an iterator lives: the caller
\* reaches the facade only when there is none
Call_get_vcp_feature(V) ==
    /\ pc = "idle"
    /\ it_pc = "none"
    /\ Begin_get_vcp_feature(V)
    /\ UNCHANGED <<codec_vars, queue_vars, parse_vars, enum_vars>>

\* self.transmit(addr, &transmit_buffer)?
get_vcp_feature_transmit ==
    /\ pc \in {"gv_transmit0", "gv_transmit"}
    /\ log' = Append(log, Call("transmit", addr(request), transmit_buffer(request), 0))
    /\ \/ /\ pc' = IF pc = "gv_transmit0" THEN "gv_delay0" ELSE "gv_delay"
          /\ UNCHANGED result
       \/ Finish(Err("TransmitError"))
    /\ UNCHANGED <<op, vtype, request, reply, retry, capabilities_buffer, replies>>
    /\ UNCHANGED <<arg, codec_vars, queue_vars, parse_vars, enum_vars>>

\* self.delay(40)
get_vcp_feature_delay ==
    /\ pc \in {"gv_delay0", "gv_delay"}
    /\ log' = Append(log, Call("delay", 0, <<>>, get_vcp_delay_ms))
    /\ pc' = IF pc = "gv_delay0" THEN "gv_receive0" ELSE "gv_receive"
    /\ UNCHANGED <<op, vtype, request, reply, retry, capabilities_buffer, replies, result>>
    /\ UNCHANGED <<arg, codec_vars, queue_vars, parse_vars, enum_vars>>

\* the code after a reply was parsed, up to the next transmit or the return
get_vcp_feature_continue(n, get_vcp_reply) ==
    /\ reply' = get_vcp_reply
    /\ replies' = Append(replies, get_vcp_reply)
    /\ retry' = n
    /\ IF retry_again(n, get_vcp_reply)
       THEN pc' = "gv_transmit" /\ UNCHANGED result
       ELSE Finish(decode_vcp_reply(vtype, get_vcp_reply))

\* parse_buffer(&self.receive(addr)?).map_err(ProtocolError)?, then the loop
get_vcp_feature_receive ==
    /\ pc \in {"gv_receive0", "gv_receive"}
    /\ log' = Append(log, Call("receive", addr(request), <<>>, 0))
    /\ \/ /\ Finish(Err("ReceiveError"))
          /\ UNCHANGED <<reply, replies, retry>>
       \/ \E bytes \in VcpReplyFrames :
            LET r == parse_buffer(receive(addr(request), bytes)) IN
            CASE r.kind = "Ok" ->
                    get_vcp_feature_continue(
                        IF pc = "gv_receive0" THEN RetryCount ELSE retry - 1, r.msg)
              [] r.kind = "Abort" ->
                    Finish(Aborted) /\ UNCHANGED <<reply, replies, retry>>
              [] OTHER ->
                    Finish(ProtocolError(r.kind)) /\ UNCHANGED <<reply, replies, retry>>
    /\ UNCHANGED <<op, vtype, request, capabilities_buffer>>
    /\ UNCHANGED <<arg, codec_vars, queue_vars, parse_vars, enum_vars>>

Call_read_capabilities ==
    /\ pc = "idle"
    /\ it_pc = "none"
    /\ op' = "read_capabilities"
    /\ request' = set_offset(from_opcode(Op("CapabilitiesRequest")), 0)
    /\ pc' = "rc_transmit0"
    /\ UNCHANGED <<vtype, reply, retry, capabilities_buffer, log, replies, result>>
    /\ UNCHANGED <<arg, codec_vars, queue_vars, parse_vars, enum_vars>>

read_capabilities_transmit ==
    /\ pc \in {"rc_transmit0", "rc_transmit"}
    /\ log' = Append(log, Call("transmit", addr(request), transmit_buffer(request), 0))
    /\ \/ /\ pc' = IF pc = "rc_transmit0" THEN "rc_delay0" ELSE "rc_delay"
          /\ UNCHANGED result
       \/ Finish(Err("TransmitError"))
    /\ UNCHANGED <<op, vtype, request, reply, retry, capabilities_buffer, replies>>
    /\ UNCHANGED <<arg, codec_vars, queue_vars, parse_vars, enum_vars>>

read_capabilities_delay ==
    /\ pc \in {"rc_delay0", "rc_delay"}
    /\ log' = Append(log, Call("delay", 0, <<>>, read_capabilities_delay_ms))
    /\ pc' = IF pc = "rc_delay0" THEN "rc_receive0" ELSE "rc_receive"
    /\ UNCHANGED <<op, vtype, request, reply, retry, capabilities_buffer, replies, result>>
    /\ UNCHANGED <<arg, codec_vars, queue_vars, parse_vars, enum_vars>>

\* the loop condition "capabilities_reply.get_data_len() != 0"
more_capabilities(capabilities_reply) == get_data_len(capabilities_reply) # 0

\* the code after a reply was parsed: the loop body up to the next transmit,
\* or String::from_utf8(..).unwrap() and parse_capabilities(&cap_str)?,
\* whose verdict on the text is left open here
read_capabilities_continue(capabilities_reply) ==
    /\ reply' = capabilities_reply
    /\ replies' = Append(replies, capabilities_reply)
    /\ IF more_capabilities(capabilities_reply)
       THEN /\ capabilities_buffer' = capabilities_buffer \o get_data(capabilities_reply)
            /\ request' = add_offset(request, get_data_len(capabilities_reply))
            /\ pc' = "rc_transmit"
            /\ UNCHANGED result
       ELSE /\ UNCHANGED <<capabilities_buffer, request>>
            /\ \/ Finish(Ok(NoValue, capabilities_buffer))
               \/ Finish([Err("ReadDataError") EXCEPT !.text = capabilities_buffer])

\* the fragments a monitor sends in one read are bounded by MaxFragments
read_capabilities_receive ==
    /\ pc \in {"rc_receive0", "rc_receive"}
    /\ log' = Append(log, Call("receive", addr(request), <<>>, 0))
    /\ \/ /\ Finish(Err("ReceiveError"))
          /\ UNCHANGED <<reply, replies, capabilities_buffer, request>>
       \/ \E bytes \in CapabilityFrames(request.offset[1], Len(replies)) :
            LET r == parse_buffer(receive(addr(request), bytes)) IN
            CASE r.kind = "Ok" -> read_capabilities_continue(r.msg)
              [] r.kind = "Abort" ->
                    /\ Finish(Aborted)
                    /\ UNCHANGED <<reply, replies, capabilities_buffer, request>>
              [] OTHER ->
                    /\ Finish(ProtocolError(r.kind))
                    /\ UNCHANGED <<reply, replies, capabilities_buffer, request>>
    /\ UNCHANGED <<op, vtype, retry>>
    /\ UNCHANGED <<arg, codec_vars, queue_vars, parse_vars, enum_vars>>

\* the caller takes the result; the next operation starts afresh
set_vcp_delay_ms == 50

\* values a caller writes
SetValues ==
    {[ty |-> "LuminanceValue", name |-> "", a |-> 100, b |-> 50],
     [ty |-> "LuminanceValue", name |-> "", a |-> 100, b |-> 300],
     [ty |-> "NewControlValue", name |-> "Finished", a |-> 0, b |-> 0],
     [ty |-> "InputSource", name |-> "Hdmi1", a |-> 0, b |-> 0]}

\* set_vcp_feature(vcp_value) up to its first transport call
Begin_set_vcp_feature(vcp_value) ==
    LET r == set_data(set_vcp_feature(from_opcode(Op("SetVcp")),
                                      vcp_feature_of(vcp_value.ty)),
                      <<vh(vcp_value), vl(vcp_value)>>)
    IN  /\ op' = "set_vcp_feature"
        /\ vtype' = vcp_value.ty
        /\ arg' = vcp_value
        /\ Fresh
        /\ IF r.kind = "Ok"
           THEN /\ request' = r.msg
                /\ pc' = "sv_transmit"
                /\ result' = NoResult
           ELSE /\ request' = NullResponse
                /\ Finish(ProtocolError(r.kind))

Call_DdcCiDevice_set_vcp_feature(vcp_value) ==
    /\ pc = "idle"
    /\ it_pc = "none"
    /\ Begin_set_vcp_feature(vcp_value)
    /\ UNCHANGED <<codec_vars, queue_vars, parse_vars, enum_vars>>

\* self.transmit(addr, &transmit_buffer)?
set_vcp_feature_transmit ==
    /\ pc = "sv_transmit"
    /\ log' = Append(log, Call("transmit", addr(request), transmit_buffer(request), 0))
    /\ \/ pc' = "sv_delay" /\ UNCHANGED result
       \/ Finish(Err("TransmitError"))
    /\ UNCHANGED <<op, vtype, request, reply, retry, capabilities_buffer, replies>>
    /\ UNCHANGED <<arg, codec_vars, queue_vars, parse_vars, enum_vars>>

\* self.delay(50); Ok(())
set_vcp_feature_delay ==
    /\ pc = "sv_delay"
    /\ log' = Append(log, Call("delay", 0, <<>>, set_vcp_delay_ms))
    /\ Finish(Ok(NoValue, <<>>))
    /\ UNCHANGED <<op, vtype, request, reply, retry, capabilities_buffer, replies>>
    /\ UNCHANGED <<arg, codec_vars, queue_vars, parse_vars, enum_vars>>

Call_save_current_settings ==
    /\ pc = "idle"
    /\ it_pc = "none"
    /\ op' = "save_current_settings"
    /\ vtype' = ""
    /\ arg' = NoValue
    /\ request' = from_opcode(Op("SaveCurrentSettings"))
    /\ pc' = "ss_transmit"
    /\ result' = NoResult
    /\ Fresh
    /\ UNCHANGED <<codec_vars, queue_vars, parse_vars, enum_vars>>

\* self.transmit(addr, &transmit_buffer)?; Ok(())
save_current_settings_transmit ==
    /\ pc = "ss_transmit"
    /\ log' = Append(log, Call("transmit", addr(request), transmit_buffer(request), 0))
    /\ \/ Finish(Ok(NoValue, <<>>))
       \/ Finish(Err("TransmitError"))
    /\ UNCHANGED <<op, vtype, request, reply, retry, capabilities_buffer, replies>>
    /\ UNCHANGED <<arg, codec_vars, queue_vars, parse_vars, enum_vars>>

\* the facade is at rest again
Idle ==
    /\ op' = "none"
    /\ vtype' = ""
    /\ arg' = NoValue
    /\ pc' = "idle"
    /\ request' = NullResponse
    /\ result' = NoResult
    /\ Fresh

Return ==
    /\ pc = "done"
    /\ it_pc = "none"
    /\ Idle
    /\ UNCHANGED <<codec_vars, queue_vars, parse_vars, enum_vars>>

---------------------------------------------------------------------------
(* mccs/features/queue.rs: VcpCodeUpdateQueue, the change-notification      *)
(* iterator, pulled by a for loop until it returns None.  A pull runs from  *)
(* one facade call's return to the next facade call or to its own return.   *)

\* a facade call of a pull: the function, its value type, its argument and
\* (once it has returned) its result
FacadeCall(fn, V, v) == [fn |-> fn, ty |-> V, arg |-> v, res |-> NoResult]

\* the calls of the pull, the latest one with the result it returned
Answered == [calls EXCEPT ![Len(calls)].res = result]

Some_item(r) == [kind |-> "Some", res |-> r]
None_item == [kind |-> "None", res |-> NoResult]
Abort_item == [kind |-> "Abort", res |-> NoResult]

\* the other value of NewControlValue
Finished_AsPresent ==
    [ty |-> "NewControlValue", name |-> "NewControlValuesPresent", a |-> 0, b |-> 0]
Finished == [ty |-> "NewControlValue", name |-> "Finished", a |-> 0, b |-> 0]
NewControlValuesPresent ==
    [ty |-> "NewControlValue", name |-> "NewControlValuesPresent", a |-> 0, b |-> 0]

\* the feature code a VcpFeatureCode value stands for
as_feature(v) == [code |-> v.name, byte |-> v.a]

\* the features read_from_ddc is called for, and the value type it reads
MaterializedFeatures == {"Luminance", "Contrast", "OsdLanguage", "InputSelect"}
value_type_of(feature) ==
    CASE feature.code = "Luminance" -> "LuminanceValue"
      [] feature.code = "Contrast" -> "ContrastValue"
      [] feature.code = "OsdLanguage" -> "OsdLanguages"
      [] feature.code = "InputSelect" -> "InputSource"
      [] feature.code = "NewControlValue" -> "NewControlValue"

\* VcpFeatureValue::Unimplemented(code, value)
Unimplemented(code, value) ==
    [ty |-> "Unimplemented", name |-> "", a |-> code, b |-> value]

\* MonitorDevice::event_iter: VcpCodeUpdateQueue::new(&mut self.handle)
event_iter ==
    /\ it_pc = "none"
    /\ pc = "idle"
    /\ started' = FALSE
    /\ it_pc' = "ready"
    /\ first_pull' = FALSE
    /\ calls' = <<>>
    /\ fifo' = Feature("CodePage")
    /\ item' = NoItem
    /\ UNCHANGED <<op, vtype, pc, request, reply, retry, capabilities_buffer, log,
                   replies, result, arg>>
    /\ UNCHANGED <<codec_vars, parse_vars, enum_vars>>

\* the iterator reads the FIFO: get_vcp_feature::<VcpFeatureCode>()
ReadFifo ==
    /\ Begin_get_vcp_feature("VcpFeatureCode")
    /\ it_pc' = "read"

\* next(), lines 20-32, up to its first facade call
begin_pull ==
    /\ pc \in {"idle", "done"}
    /\ first_pull' = ~started
    /\ item' = NoItem
    /\ IF ~started
       THEN /\ Begin_get_vcp_feature("NewControlValue")
            /\ it_pc' = "query"
            /\ calls' = <<FacadeCall("get_vcp_feature", "NewControlValue", NoValue)>>
       ELSE /\ ReadFifo
            /\ calls' = <<FacadeCall("get_vcp_feature", "VcpFeatureCode", NoValue)>>
    /\ UNCHANGED <<started, fifo>>
    /\ UNCHANGED <<codec_vars, parse_vars, enum_vars>>

\* a pull of an iterator that has not returned None
next_begin ==
    /\ it_pc = "ready"
    /\ begin_pull

\* a pull of the iterator whose latest pull returned None: the iterator is
\* not fused, it still holds the channel (the facade is as its latest call
\* left it) and its field started is what that pull left
next_after_end ==
    /\ it_pc = "none"
    /\ item.kind = "None"
    /\ pc = "done"
    /\ calls # <<>>
    /\ calls[Len(calls)].res = result
    /\ begin_pull

\* the pull returns: the facade keeps what its last operation left
pull_returns(i) ==
    /\ item' = i
    /\ it_pc' = IF i.kind = "Some" THEN "ready"
                ELSE IF i.kind = "None" THEN "none" ELSE "aborted"
    /\ UNCHANGED <<op, vtype, pc, request, reply, retry, capabilities_buffer, log,
                   replies, result, arg>>

\* lines 21-30: the answer to the NewControlValue query
next_query_done ==
    /\ it_pc = "query"
    /\ pc = "done"
    /\ IF result.kind = "Abort"
       THEN pull_returns(Abort_item) /\ calls' = Answered /\ UNCHANGED started
       ELSE IF result.kind = "Err" \/ result.value # NewControlValuesPresent
       THEN pull_returns(None_item) /\ calls' = Answered /\ UNCHANGED started
       ELSE /\ started' = TRUE
            /\ ReadFifo
            /\ calls' = Append(Answered,
                    FacadeCall("get_vcp_feature", "VcpFeatureCode", NoValue))
            /\ UNCHANGED item
    /\ UNCHANGED <<first_pull, fifo>>
    /\ UNCHANGED <<codec_vars, parse_vars, enum_vars>>

\* lines 32-50: the answer to the ActiveControl read
next_read_done ==
    /\ it_pc = "read"
    /\ pc = "done"
    /\ IF result.kind = "Abort"
       THEN pull_returns(Abort_item) /\ calls' = Answered /\ UNCHANGED fifo
       ELSE IF result.kind = "Err"
       THEN pull_returns(Some_item(result)) /\ calls' = Answered /\ UNCHANGED fifo
       ELSE LET feature == as_feature(result.value) IN
            /\ fifo' = feature
            /\ IF feature = Feature("CodePage")
               THEN /\ Begin_set_vcp_feature(Finished)
                    /\ it_pc' = "finish"
                    /\ calls' = Append(Answered,
                            FacadeCall("set_vcp_feature", "NewControlValue", Finished))
                    /\ UNCHANGED item
               ELSE IF feature.code \in MaterializedFeatures
               THEN /\ Begin_get_vcp_feature(value_type_of(feature))
                    /\ it_pc' = "fetch"
                    /\ calls' = Append(Answered,
                            FacadeCall("get_vcp_feature", value_type_of(feature), NoValue))
                    /\ UNCHANGED item
               ELSE /\ pull_returns(Some_item(
                            Ok(Unimplemented(FeatureToU8(feature), 0), <<>>)))
                    /\ calls' = Answered
    /\ UNCHANGED <<started, first_pull>>
    /\ UNCHANGED <<codec_vars, parse_vars, enum_vars>>

\* lines 34-35: "let _ = set_vcp_feature(Finished); return None"
next_finish_done ==
    /\ it_pc = "finish"
    /\ pc = "done"
    /\ pull_returns(None_item)
    /\ calls' = Answered
    /\ UNCHANGED <<started, first_pull, fifo>>
    /\ UNCHANGED <<codec_vars, parse_vars, enum_vars>>

\* lines 43 and 50: read_from_ddc(..).unwrap(), wrapped in Some(Ok(..))
next_fetch_done ==
    /\ it_pc = "fetch"
    /\ pc = "done"
    /\ IF result.kind = "Ok"
       THEN pull_returns(Some_item(result))
       ELSE pull_returns(Abort_item)
    /\ calls' = Answered
    /\ UNCHANGED <<started, first_pull, fifo>>
    /\ UNCHANGED <<codec_vars, parse_vars, enum_vars>>

Next ==
    \/ \E V \in ValueTypes : Call_get_vcp_feature(V)
    \/ get_vcp_feature_transmit
    \/ get_vcp_feature_delay
    \/ get_vcp_feature_receive
    \/ Call_read_capabilities
    \/ read_capabilities_transmit
    \/ read_capabilities_delay
    \/ read_capabilities_receive
    \/ \E vcp_value \in SetValues : Call_DdcCiDevice_set_vcp_feature(vcp_value)
    \/ set_vcp_feature_transmit
    \/ set_vcp_feature_delay
    \/ Call_save_current_settings
    \/ save_current_settings_transmit
    \/ Return
    \/ event_iter
    \/ next_begin
    \/ next_after_end
    \/ next_query_done
    \/ next_read_done
    \/ next_finish_done
    \/ next_fetch_done

Spec == Init /\ [][Next]_vars

\* examples/event_listener.rs: "loop { for vcp_event in monitor.event_iter()
\* { .. } }", a program that does nothing but pull change notifications
NextListener ==
    \/ event_iter
    \/ next_begin
    \/ next_query_done
    \/ next_read_done
    \/ next_finish_done
    \/ next_fetch_done
    \/ get_vcp_feature_transmit
    \/ get_vcp_feature_delay
    \/ get_vcp_feature_receive
    \/ set_vcp_feature_transmit
    \/ set_vcp_feature_delay
    \/ Return

\* the program is sequential and every transport call returns: the step it
\* is at is taken
ListenerFairness ==
    /\ WF_vars(event_iter) /\ WF_vars(next_begin)
    /\ WF_vars(next_query_done) /\ WF_vars(next_read_done)
    /\ WF_vars(next_finish_done) /\ WF_vars(next_fetch_done)
    /\ WF_vars(get_vcp_feature_transmit) /\ WF_vars(get_vcp_feature_delay)
    /\ WF_vars(get_vcp_feature_receive)
    /\ WF_vars(set_vcp_feature_transmit) /\ WF_vars(set_vcp_feature_delay)
    /\ WF_vars(Return)

SpecListener == Init /\ [][NextListener]_vars /\ ListenerFairness

---------------------------------------------------------------------------
(* ddc/edid.rs: the nom parsers.  A parser takes a byte slice i and        *)
(* returns [ok, rest, val]: ok = FALSE is a nom error, rest the input    *)
(* left after the bytes it consumed.                                       *)

ParseError == [ok |-> FALSE, rest |-> <<>>, val |-> <<>>]
ParseOk(rest, val) == [ok |-> TRUE, rest |-> rest, val |-> val]

\* the slice after its first n bytes
Skip(i, n) == SubSeq(i, n + 1, Len(i))

\* nom's take(n), and peek(take(n)) which consumes nothing
take(n, i) ==
    IF Len(i) < n THEN ParseError ELSE ParseOk(Skip(i, n), SubSeq(i, 1, n))
peek_take(n, i) ==
    IF Len(i) < n THEN ParseError ELSE ParseOk(i, SubSeq(i, 1, n))

\* nom's number parsers
peek_le_u8(i) == IF Len(i) < 1 THEN ParseError ELSE ParseOk(i, i[1])
le_u16(i) ==
    IF Len(i) < 2 THEN ParseError ELSE ParseOk(Skip(i, 2), i[1] + 256 * i[2])
be_u16(i) ==
    IF Len(i) < 2 THEN ParseError ELSE ParseOk(Skip(i, 2), 256 * i[1] + i[2])
le_u32(i) ==
    IF Len(i) < 4 THEN ParseError
    ELSE ParseOk(Skip(i, 4),
                 i[1] + 256 * i[2] + 65536 * i[3] + 16777216 * i[4])

\* x >> n and x << n within 16 bits
Shr(x, n) == x \div (2 ^ n)
Shl16(x, n) == (x * (2 ^ n)) % 65536

EdidMagic == <<0, 255, 255, 255, 255, 255, 255, 0>>

\* a decoding that counts the letters from 'A' = 0
parse_vendor_FromZero(v) ==
    <<BitAnd(Shr(v, 10) % 256, 31) + 65,
      BitAnd(Shr(v, 5) % 256, 31) + 65,
      BitAnd(Shr(v, 0) % 256, 31) + 65>>

\* [char; 3] as the three code points
parse_vendor(v) ==
    LET mask == 31
        i0 == 65 - 1
    IN  <<BitAnd(Shr(v, 10) % 256, mask) + i0,
          BitAnd(Shr(v, 5) % 256, mask) + i0,
          BitAnd(Shr(v, 0) % 256, mask) + i0>>

parse_header(i) ==
    IF Len(i) < 8 \/ SubSeq(i, 1, 8) # EdidMagic THEN ParseError
    ELSE LET vendor == be_u16(Skip(i, 8)) IN
    IF ~vendor.ok THEN ParseError
    ELSE LET product == le_u16(vendor.rest) IN
    IF ~product.ok THEN ParseError
    ELSE LET serial == le_u32(product.rest) IN
    IF ~serial.ok THEN ParseError
    ELSE LET week == le_u8(serial.rest) IN
    IF ~week.ok THEN ParseError
    ELSE LET year == le_u8(week.rest) IN
    IF ~year.ok THEN ParseError
    ELSE LET version == le_u8(year.rest) IN
    IF ~version.ok THEN ParseError
    ELSE LET revision == le_u8(version.rest) IN
    IF ~revision.ok THEN ParseError
    ELSE ParseOk(revision.rest,
                 [vendor |-> parse_vendor(vendor.val),
                  product |-> product.val,
                  serial |-> serial.val,
                  week |-> week.val,
                  year |-> year.val,
                  version |-> version.val,
                  revision |-> revision.val])

parse_display(i) ==
    IF Len(i) < 5 THEN ParseError
    ELSE ParseOk(Skip(i, 5),
                 [video_input |-> i[1], width |-> i[2], height |-> i[3],
                  gamma |-> i[4], features |-> i[5]])

parse_chromaticity(i) ==
    IF Len(i) < 10 THEN ParseError ELSE ParseOk(Skip(i, 10), <<>>)

parse_established_timing(i) ==
    IF Len(i) < 3 THEN ParseError ELSE ParseOk(Skip(i, 3), <<>>)

parse_standard_timing(i) ==
    IF Len(i) < 16 THEN ParseError ELSE ParseOk(Skip(i, 16), <<>>)

CP437_FORWARD_TABLE ==
    <<
      0, 9786, 9787, 9829, 9830, 9827, 9824, 8226, 9688, 9675, 9689, 9794,
      9792, 9834, 9835, 9788, 9658, 9668, 8597, 8252, 182, 167, 9644, 8616,
      8593, 8595, 8594, 8592, 8735, 8596, 9650, 9660, 32, 33, 34, 35,
      36, 37, 38, 39, 40, 41, 42, 43, 44, 45, 46, 47,
      48, 49, 50, 51, 52, 53, 54, 55, 56, 57, 58, 59,
      60, 61, 62, 63, 64, 65, 66, 67, 68, 69, 70, 71,
      72, 73, 74, 75, 76, 77, 78, 79, 80, 81, 82, 83,
      84, 85, 86, 87, 88, 89, 90, 91, 92, 93, 94, 95,
      96, 97, 98, 99, 100, 101, 102, 103, 104, 105, 106, 107,
      108, 109, 110, 111, 112, 113, 114, 115, 116, 117, 118, 119,
      120, 121, 122, 123, 124, 125, 126, 8962, 199, 252, 233, 226,
      228, 224, 229, 231, 234, 235, 232, 239, 238, 236, 196, 197,
      201, 230, 198, 244, 246, 242, 251, 249, 255, 214, 220, 162,
      163, 165, 8359, 402, 225, 237, 243, 250, 241, 209, 170, 186,
      191, 8976, 172, 189, 188, 161, 171, 187, 9617, 9618, 9619, 9474,
      9508, 9569, 9570, 9558, 9557, 9571, 9553, 9559, 9565, 9564, 9563, 9488,
      9492, 9524, 9516, 9500, 9472, 9532, 9566, 9567, 9562, 9556, 9577, 9574,
      9568, 9552, 9580, 9575, 9576, 9572, 9573, 9561, 9560, 9554, 9555, 9579,
      9578, 9496, 9484, 9608, 9604, 9612, 9616, 9600, 945, 223, 915, 960,
      931, 963, 181, 964, 934, 920, 937, 948, 8734, 966, 949, 8745,
      8801, 177, 8805, 8804, 8992, 8993, 247, 8776, 176, 8729, 183, 8730,
      8319, 178, 9632, 160
    >>

cp437_forward(code) == CP437_FORWARD_TABLE[code + 1]

\* the code points str::trim removes: of the table's characters, U+0020 and
\* U+00A0 have the White_Space property
IsWhitespace(c) == c \in {32, 160}

RECURSIVE trim_start(_)
trim_start(s) ==
    IF s # <<>> /\ IsWhitespace(Head(s)) THEN trim_start(Tail(s)) ELSE s

RECURSIVE trim_end(_)
trim_end(s) ==
    IF s # <<>> /\ IsWhitespace(s[Len(s)])
    THEN trim_end(SubSeq(s, 1, Len(s) - 1)) ELSE s

trim(s) == trim_end(trim_start(s))

\* encoded.iter().filter(|b| **b != 0x0A).map(|b| cp437_forward(*b))
RECURSIVE decode_text(_)
decode_text(encoded) ==
    IF encoded = <<>> THEN <<>>
    ELSE IF Head(encoded) = 10 THEN decode_text(Tail(encoded))
    ELSE <<cp437_forward(Head(encoded))>> \o decode_text(Tail(encoded))

\* a String as the sequence of its code points
parse_descriptor_text(i) ==
    LET encoded == take(13, i) IN
    IF ~encoded.ok THEN ParseError
    ELSE ParseOk(encoded.rest, trim(decode_text(encoded.val)))

\* DetailedTiming from the 18 bytes of a timing descriptor
parse_detailed_timing(i) ==
    IF Len(i) < 18 THEN ParseError
    ELSE
    LET pixel_clock_10khz == i[1] + 256 * i[2]
        horizontal_active_lo == i[3]
        horizontal_blanking_lo == i[4]
        horizontal_px_hi == i[5]
        vertical_active_lo == i[6]
        vertical_blanking_lo == i[7]
        vertical_px_hi == i[8]
        horizontal_front_porch_lo == i[9]
        horizontal_sync_width_lo == i[10]
        vertical_lo == i[11]
        porch_sync_hi == i[12]
        horizontal_size_lo == i[13]
        vertical_size_lo == i[14]
        size_hi == i[15]
        horizontal_border == i[16]
        vertical_border == i[17]
        features == i[18]
    IN  ParseOk(Skip(i, 18),
         \* u16 as u32 * 10 is at most 655350: the product never wraps
         [pixel_clock |-> pixel_clock_10khz * 10,
          horizontal_active_pixels |->
              BitOr(horizontal_active_lo, Shl16(Shr(horizontal_px_hi, 4), 8)),
          horizontal_blanking_pixels |->
              BitOr(horizontal_blanking_lo, Shl16(BitAnd(horizontal_px_hi, 15), 8)),
          vertical_active_lines |->
              BitOr(vertical_active_lo, Shl16(Shr(vertical_px_hi, 4), 8)),
          vertical_blanking_lines |->
              BitOr(vertical_blanking_lo, Shl16(BitAnd(vertical_px_hi, 15), 8)),
          horizontal_front_porch |->
              BitOr(horizontal_front_porch_lo, Shl16(Shr(porch_sync_hi, 6), 8)),
          horizontal_sync_width |->
              BitOr(horizontal_sync_width_lo,
                    Shl16(BitAnd(Shr(porch_sync_hi, 4), 3), 8)),
          vertical_front_porch |->
              BitOr(Shr(vertical_lo, 4), Shl16(BitAnd(Shr(porch_sync_hi, 2), 3), 8)),
          vertical_sync_width |->
              BitOr(BitAnd(vertical_lo, 15), Shl16(BitAnd(porch_sync_hi, 3), 8)),
          horizontal_size |-> BitOr(horizontal_size_lo, Shl16(Shr(size_hi, 4), 8)),
          vertical_size |-> BitOr(vertical_size_lo, Shl16(BitAnd(size_hi, 15), 8)),
          horizontal_border_pixels |-> horizontal_border,
          vertical_border_pixels |-> vertical_border,
          features |-> features])

\* enum Descriptor: [kind, text, data, timing]; text is the String of the
\* three text kinds, data the bytes of Unknown, timing of DetailedTiming
NoTiming == <<>>
Descriptor(kind) == [kind |-> kind, text |-> <<>>, data |-> <<>>, timing |-> NoTiming]
TextDescriptor(kind, s) == [Descriptor(kind) EXCEPT !.text = s]

\* the arms that take the 5 reserved bytes and the 13 data bytes
descriptor_skipped(kind, i) ==
    LET reserved == take(5, i) IN
    IF ~reserved.ok THEN ParseError
    ELSE LET data == take(13, reserved.rest) IN
    IF ~data.ok THEN ParseError
    ELSE ParseOk(data.rest, Descriptor(kind))

\* the arms that take the 5 reserved bytes and decode the 13 as text
descriptor_text(kind, i) ==
    LET reserved == take(5, i) IN
    IF ~reserved.ok THEN ParseError
    ELSE LET s == parse_descriptor_text(reserved.rest) IN
    IF ~s.ok THEN ParseError
    ELSE ParseOk(s.rest, TextDescriptor(kind, s.val))

\* the arm "_": fill(le_u8, &mut data) after the 5 reserved bytes
descriptor_unknown(i) ==
    LET reserved == take(5, i) IN
    IF ~reserved.ok THEN ParseError
    ELSE LET data == take(13, reserved.rest) IN
    IF ~data.ok THEN ParseError
    ELSE ParseOk(data.rest, [Descriptor("Unknown") EXCEPT !.data = data.val])

\* the match of parse_descriptor on the byte descriptor_type
descriptor_match(descriptor_type, i) ==
    CASE descriptor_type = 255 -> descriptor_text("SerialNumber", i)
      [] descriptor_type = 254 -> descriptor_text("UnspecifiedText", i)
      [] descriptor_type = 253 -> descriptor_skipped("RangeLimits", i)
      [] descriptor_type = 252 -> descriptor_text("ProductName", i)
      [] descriptor_type = 251 -> descriptor_skipped("WhitePoint", i)
      [] descriptor_type = 250 -> descriptor_skipped("StandardTiming", i)
      [] descriptor_type = 249 -> descriptor_skipped("ColorManagement", i)
      [] descriptor_type = 248 -> descriptor_skipped("TimingCodes", i)
      [] descriptor_type = 247 -> descriptor_skipped("EstablishedTimings", i)
      [] descriptor_type = 16 -> descriptor_skipped("Dummy", i)
      [] OTHER -> descriptor_unknown(i)

\* both peeks leave i where it was: descriptor_type is the byte at offset 0
parse_descriptor(i) ==
    LET prefix == peek_take(3, i) IN
    IF ~prefix.ok THEN ParseError
    ELSE IF prefix.val[1] = 0 /\ prefix.val[2] = 0 /\ prefix.val[3] = 0
    THEN LET descriptor_type == peek_le_u8(prefix.rest) IN
         IF ~descriptor_type.ok THEN ParseError
         ELSE descriptor_match(descriptor_type.val, descriptor_type.rest)
    ELSE LET timing == parse_detailed_timing(i) IN
         IF ~timing.ok THEN ParseError
         ELSE ParseOk(timing.rest,
                      [Descriptor("DetailedTiming") EXCEPT !.timing = timing.val])

\* count(parse_descriptor, n)
RECURSIVE count_parse_descriptor(_, _)
count_parse_descriptor(n, i) ==
    IF n = 0 THEN ParseOk(i, <<>>)
    ELSE LET d == parse_descriptor(i) IN
         IF ~d.ok THEN ParseError
         ELSE LET more == count_parse_descriptor(n - 1, d.rest) IN
              IF ~more.ok THEN ParseError
              ELSE ParseOk(more.rest, <<d.val>> \o more.val)

\* the wrapping u8 sum of full_input[lo..hi]; overflowing_add is
\* associative, and adding by halves keeps the evaluation shallow
RECURSIVE wrapping_sum(_, _, _)
wrapping_sum(full_input, lo, hi) ==
    IF lo > hi THEN 0
    ELSE IF lo = hi THEN full_input[lo]
    ELSE LET mid == (lo + hi) \div 2
         IN  (wrapping_sum(full_input, lo, mid)
                + wrapping_sum(full_input, mid + 1, hi)) % 256

\* sum_all after the loop "for i in 0..full_input.len() - 1" over the
\* first n bytes
sum_all(full_input, n) == wrapping_sum(full_input, 1, n)

NoHeader ==
    [vendor |-> <<>>, product |-> 0, serial |-> 0, week |-> 0, year |-> 0,
     version |-> 0, revision |-> 0]
NoDisplay ==
    [video_input |-> 0, width |-> 0, height |-> 0, gamma |-> 0, features |-> 0]

\* Result<Edid, EdidParseError>: kind is "Ok", "InvalidChecksum" or
\* "NomParserError"
EdidErr(kind) ==
    [kind |-> kind, header |-> NoHeader, display |-> NoDisplay,
     descriptors |-> <<>>, num_extr |-> 0]

parse_edid(full_input) ==
    LET header == parse_header(full_input) IN
    IF ~header.ok THEN EdidErr("NomParserError")
    ELSE LET display == parse_display(header.rest) IN
    IF ~display.ok THEN EdidErr("NomParserError")
    ELSE LET chromaticity == parse_chromaticity(display.rest) IN
    IF ~chromaticity.ok THEN EdidErr("NomParserError")
    ELSE LET established_timing == parse_established_timing(chromaticity.rest) IN
    IF ~established_timing.ok THEN EdidErr("NomParserError")
    ELSE LET standard_timing == parse_standard_timing(established_timing.rest) IN
    IF ~standard_timing.ok THEN EdidErr("NomParserError")
    ELSE LET descriptors == count_parse_descriptor(4, standard_timing.rest) IN
    IF ~descriptors.ok THEN EdidErr("NomParserError")
    ELSE LET num_extr == le_u8(descriptors.rest) IN
    IF ~num_extr.ok THEN EdidErr("NomParserError")
    ELSE LET check == le_u8(num_extr.rest) IN
    IF ~check.ok THEN EdidErr("NomParserError")
    ELSE IF (sum_all(full_input, Len(full_input) - 1) + check.val) % 256 = 0
         THEN [kind |-> "Ok", header |-> header.val, display |-> display.val,
               descriptors |-> descriptors.val, num_extr |-> num_extr.val]
         ELSE EdidErr("InvalidChecksum")

---------------------------------------------------------------------------
(* mccs/capabilities/parsers.rs and mccs/features/mod.rs: the entries of a *)
(* capability string.  Text is a sequence of bytes.                        *)

\* nom's space0: the slice after its leading spaces and tabs
RECURSIVE space0(_)
space0(i) == IF i # <<>> /\ Head(i) \in {32, 9} THEN space0(Tail(i)) ELSE i

\* the value of a hexadecimal digit, -1 for any other byte
HexDigit(c) ==
    CASE c \in 48..57 -> c - 48
      [] c \in 65..70 -> c - 55
      [] c \in 97..102 -> c - 87
      [] OTHER -> -1

\* u8::from_str_radix(s, 16) on two bytes: two digits, or "+" and a digit
from_str_radix_16(s) ==
    IF HexDigit(s[1]) >= 0 /\ HexDigit(s[2]) >= 0
    THEN Some(16 * HexDigit(s[1]) + HexDigit(s[2]))
    ELSE IF s[1] = 43 /\ HexDigit(s[2]) >= 0 THEN Some(HexDigit(s[2]))
    ELSE None

hexvalue(i) ==
    IF Len(i) < 2 THEN ParseError
    ELSE LET v == from_str_radix_16(SubSeq(i, 1, 2)) IN
         IF v = None THEN ParseError ELSE ParseOk(Skip(i, 2), v[1])

\* the element of a singleton; "Only({e(x) : x \in {v}})" is e(x) with x
\* bound to the value of v, which is computed once
Only(S) == CHOOSE x \in S : TRUE

\* trim_spaces(hexvalue)
trim_spaces_hexvalue(i) ==
    Only({IF ~r.ok THEN ParseError ELSE ParseOk(space0(r.rest), r.val) :
            r \in {hexvalue(space0(i))}})

\* many0(trim_spaces(hexvalue)), which is hexarray
RECURSIVE hexarray(_)
hexarray(i) ==
    Only({IF ~r.ok THEN ParseOk(i, <<>>)
          ELSE Only({ParseOk(more.rest, <<r.val>> \o more.val) :
                        more \in {hexarray(r.rest)}}) :
            r \in {trim_spaces_hexvalue(i)}})

\* bracketed(many0(trim_spaces(hexvalue)))
bracketed_hexarray(i) ==
    IF i = <<>> \/ Head(i) # 40 THEN ParseError
    ELSE Only({IF r.rest = <<>> \/ Head(r.rest) # 41 THEN ParseError
               ELSE ParseOk(Tail(r.rest), r.val) :
                 r \in {hexarray(Tail(i))}})

\* opt(bracketed(..)): None and the input untouched when there is no list
opt_bracketed_hexarray(i) ==
    Only({IF r.ok THEN ParseOk(r.rest, Some(r.val)) ELSE ParseOk(i, None) :
            r \in {bracketed_hexarray(i)}})

\* enum VcpCapability: [kind, code, values]; Language and DisplayInput
\* carry no code of their own, theirs is written out here
VcpCapability(kind, code) == [kind |-> kind, code |-> code, values |-> <<>>]

\* AnonymousVcpValue(value)
AnonymousVcpValue(value) ==
    [ty |-> "AnonymousVcpValue", name |-> "", a |-> value, b |-> 0]

\* a mapping that knows the two discrete features only
from_feature_code_NoContinuous(code) ==
    CASE code.code = "OsdLanguage" ->
            [kind |-> "Ok", cap |-> VcpCapability("Language", code)]
      [] code.code = "InputSelect" ->
            [kind |-> "Ok", cap |-> VcpCapability("DisplayInput", code)]
      [] code.code = "Unknown" ->
            [kind |-> "UnknownCapability", cap |-> VcpCapability("", code)]
      [] OTHER -> [kind |-> "UnimplementedVcpMapping", cap |-> VcpCapability("", code)]

\* VcpCapability::from_feature_code
from_feature_code(code) ==
    CASE code.code = "OsdLanguage" ->
            [kind |-> "Ok", cap |-> VcpCapability("Language", code)]
      [] code.code = "InputSelect" ->
            [kind |-> "Ok", cap |-> VcpCapability("DisplayInput", code)]
      [] code.code = "Unknown" ->
            [kind |-> "UnknownCapability", cap |-> VcpCapability("", code)]
      [] code.code \in {"Contrast", "Luminance"} ->
            [kind |-> "Ok", cap |-> VcpCapability("Continuous", code)]
      [] OTHER -> [kind |-> "UnimplementedVcpMapping", cap |-> VcpCapability("", code)]

\* VcpCapability::add_discrete_value
add_discrete_value(self, value) ==
    CASE self.kind = "Language" ->
            [self EXCEPT !.values = Append(@, from_u32("OsdLanguages", value).value)]
      [] self.kind = "DisplayInput" ->
            [self EXCEPT !.values = Append(@, from_u32("InputSource", value).value)]
      [] self.kind = "UnimplementedDiscrete" ->
            [self EXCEPT !.values = Append(@, AnonymousVcpValue(value))]
      [] OTHER -> self

\* "for v in values { vcp_cap.add_discrete_value(v as u32) }"
RECURSIVE add_discrete_values(_, _)
add_discrete_values(vcp_cap, values) ==
    IF values = <<>> THEN vcp_cap
    ELSE add_discrete_values(add_discrete_value(vcp_cap, Head(values)), Tail(values))

\* lines 116-138 of fn vcp, for the parsed code byte and value list
vcp_entry(hh, values) ==
    LET code == U8ToFeature(hh.val)
        made == from_feature_code(code)
        vcp_cap ==
            CASE made.kind = "Ok" -> made.cap
              [] made.kind = "UnknownCapability" -> VcpCapability("unreachable", code)
              [] OTHER ->
                    IF is_some(values.val)
                    THEN VcpCapability("UnimplementedDiscrete", code)
                    ELSE VcpCapability("Unimplemented", code)
    IN  ParseOk(values.rest,
                IF is_some(values.val)
                THEN add_discrete_values(vcp_cap, values.val[1])
                ELSE vcp_cap)

\* fn vcp: one entry HH or HH(v1 v2 ...)
vcp(i) ==
    Only({IF ~hh.ok THEN ParseError
          ELSE Only({vcp_entry(hh, values) :
                        values \in {opt_bracketed_hexarray(hh.rest)}}) :
            hh \in {trim_spaces_hexvalue(i)}})

\* many0(vcp)
RECURSIVE many0_vcp(_)
many0_vcp(i) ==
    Only({IF ~r.ok THEN ParseOk(i, <<>>)
          ELSE Only({ParseOk(more.rest, <<r.val>> \o more.val) :
                        more \in {many0_vcp(r.rest)}}) :
            r \in {vcp(i)}})

\* enum Cap: [variant, vcp, commands, text]
Cap(variant) == [variant |-> variant, vcp |-> <<>>, commands |-> <<>>, text |-> <<>>]

RECURSIVE opcodes_of(_)
opcodes_of(val) ==
    IF val = <<>> THEN <<>> ELSE <<U8ToOpcode(Head(val))>> \o opcodes_of(Tail(val))

\* Cap::parse_string for the tags "model", "cmds", "vcp", "VCP" and the
\* tags it does not know: [kind |-> "Ok" | "Err", cap]
parse_string(tag, i) ==
    CASE tag = "model" -> [kind |-> "Ok", cap |-> [Cap("Model") EXCEPT !.text = i]]
      [] tag = "cmds" ->
            Only({IF r.rest # <<>> THEN [kind |-> "Err", cap |-> Cap("")]
                  ELSE [kind |-> "Ok",
                        cap |-> [Cap("Commands") EXCEPT !.commands = opcodes_of(r.val)]] :
                    r \in {hexarray(i)}})
      [] tag \in {"vcp", "VCP"} ->
            Only({IF space0(r.rest) # <<>> THEN [kind |-> "Err", cap |-> Cap("")]
                  ELSE [kind |-> "Ok", cap |-> [Cap("Vcp") EXCEPT !.vcp = r.val]] :
                    r \in {many0_vcp(space0(i))}})
      [] OTHER -> [kind |-> "Ok", cap |-> [Cap("Unknown") EXCEPT !.text = i]]

\* parse_capabilities on one entry: "Cap::Vcp(vcp) => for v in vcp
\* { caps.vcp_features.push(v) }"; an Err ends the parse
vcp_features_of(tag, i) ==
    Only({[kind |-> c.kind, tag |-> tag, cap |-> c.cap,
           vcp_features |->
              IF c.kind = "Ok" /\ c.cap.variant = "Vcp" THEN c.cap.vcp ELSE <<>>] :
            c \in {parse_string(tag, i)}})

---------------------------------------------------------------------------
(* The slices the parsers are applied to *)

\* bytes that may follow the 128-byte EDID block in the slice
MaxExtra == 2

Zeros(n) == [k \in 1..n |-> 0]

\* an 18-byte monitor descriptor: three zero bytes, the tag, a reserved
\* byte and 13 bytes of data
MonitorDescriptor(tag, data) == <<0, 0, 0, tag, 0>> \o data

\* "ABC", a line feed and padding; 13 bytes of numbers
TextData == <<65, 66, 67, 10, 32, 32, 32, 32, 32, 32, 32, 32, 32>>
RawData == <<1, 2, 3, 4, 5, 6, 7, 8, 9, 10, 11, 12, 13>>
PaddedData == <<32, 255, 77, 225, 32, 10, 10, 10, 10, 10, 10, 10, 10>>

\* a 1920x1080 detailed timing
TimingDescriptor ==
    <<2, 58, 128, 24, 113, 56, 45, 64, 88, 44, 69, 0, 9, 37, 33, 0, 0, 30>>

DescriptorTags == {255, 254, 253, 252, 251, 250, 249, 248, 247, 16}

DescriptorInputs ==
    LET whole ==
            {MonitorDescriptor(tag, data) :
                tag \in DescriptorTags \cup {0, 17, 246},
                data \in {TextData, RawData, PaddedData}}
            \cup {<<a, b, c>> \o SubSeq(TimingDescriptor, 4, 18) :
                    a \in {0, 2}, b \in {0, 58}, c \in {0, 128, 252}}
    IN  whole
        \cup {d \o TimingDescriptor : d \in whole}
        \cup {SubSeq(d, 1, 17) : d \in whole}
        \cup {<<>>, <<0, 0>>, <<0, 0, 0>>}

HeaderTail == <<52, 18, 1, 0, 0, 0, 12, 30, 1, 3>>

HeaderInputs ==
    {EdidMagic \o <<hi, lo>> \o HeaderTail :
        hi \in {4, 6, 127, 134}, lo \in 0..255}
    \cup {<<0, 255, 255, 255, 255, 255, 255, 1, 6, 179>> \o HeaderTail,
          EdidMagic \o <<6, 179>> \o SubSeq(HeaderTail, 1, 9),
          SubSeq(EdidMagic, 1, 7)}

\* the 127 bytes of an EDID block before its checksum
EdidBody(d1, num_extr) ==
    EdidMagic \o <<6, 179>> \o HeaderTail \o <<128, 52, 29, 120, 42>>
        \o Zeros(29)
        \o d1 \o MonitorDescriptor(252, TextData)
        \o MonitorDescriptor(255, RawData) \o MonitorDescriptor(253, RawData)
        \o <<num_extr>>

\* the byte that makes the 128 bytes sum to delta modulo 256
CheckByte(body, delta) == (256 + delta - sum_all(body, Len(body))) % 256

EdidBlock(d1, num_extr, delta) ==
    LET body == EdidBody(d1, num_extr) IN body \o <<CheckByte(body, delta)>>

\* the bytes after the block: none, or a byte t and zero bytes
ExtraBytes ==
    {<<>>} \cup {<<t>> \o Zeros(k) : t \in 0..255, k \in 0..(MaxExtra - 1)}

EdidInputs ==
    {EdidBlock(d1, 0, delta) :
        d1 \in {TimingDescriptor, MonitorDescriptor(254, TextData),
                MonitorDescriptor(16, Zeros(13)), MonitorDescriptor(0, RawData)},
        delta \in {0, 1, 255}}
    \cup {EdidBlock(TimingDescriptor, 1, delta) \o extra :
            delta \in {0, 1}, extra \in ExtraBytes}
    \cup {SubSeq(EdidBlock(TimingDescriptor, 0, 0), 1, n) : n \in {0, 7, 19, 60, 127}}
    \cup {<<1>> \o Tail(EdidBlock(TimingDescriptor, 0, 0))}

FeatureReplyInputs ==
    LET whole ==
            {<<rc, code, ty>> \o value :
                rc \in {0, 1, 2, 255},
                code \in {0, 2, 16, 18, 82, 96, 204, 17, 255},
                ty \in {0, 1, 2},
                \* MH stays below 0x80: vcp_data is then an integer TLC holds
                value \in {<<0, 100, 0, 50>>, <<1, 2, 3, 4>>,
                           <<127, 255, 255, 255>>, <<0, 0, 0, 0>>}}
    IN  whole \cup {SubSeq(i, 1, n) : i \in whole, n \in {0, 1, 2, 6}}

---------------------------------------------------------------------------
(* SpecParse: one parser call per step *)

Call_parse_header(i) ==
    /\ parse_fn = "none"
    /\ parse_fn' = "parse_header"
    /\ parse_input' = i
    /\ parse_output' = parse_header(i)
    /\ UNCHANGED <<codec_vars, facade_vars, enum_vars>>

Call_parse_descriptor(i) ==
    /\ parse_fn = "none"
    /\ parse_fn' = "parse_descriptor"
    /\ parse_input' = i
    /\ parse_output' = parse_descriptor(i)
    /\ UNCHANGED <<codec_vars, facade_vars, enum_vars>>

\* 18-byte timings: the clock bytes, one value for the low bytes, one for
\* the packed high bytes of the pixel counts and sizes, and the two bytes
\* that hold the vertical porch and sync fields; and two slices cut short
TimingInputs ==
    {<<clock_lo, clock_hi, lo, lo, hi, lo, lo, hi, lo, lo, vertical_lo,
       porch_sync_hi, lo, lo, hi, 0, 0, 30>> :
        clock_lo \in {0, 255}, clock_hi \in {0, 255}, lo \in {0, 255},
        hi \in {0, 240, 255}, vertical_lo \in {0, 69, 255},
        porch_sync_hi \in {0, 1, 2, 4, 8, 16, 64, 255}}
    \cup {SubSeq(TimingDescriptor, 1, 17), <<>>}

Call_parse_detailed_timing(i) ==
    /\ parse_fn = "none"
    /\ parse_fn' = "parse_detailed_timing"
    /\ parse_input' = i
    /\ parse_output' = parse_detailed_timing(i)
    /\ UNCHANGED <<codec_vars, facade_vars, enum_vars>>

Call_parse_edid(full_input) ==
    /\ parse_fn = "none"
    /\ parse_fn' = "parse_edid"
    /\ parse_input' = full_input
    /\ parse_output' = parse_edid(full_input)
    /\ UNCHANGED <<codec_vars, facade_vars, enum_vars>>

Call_parse_feature_reply(i) ==
    /\ parse_fn = "none"
    /\ parse_fn' = "parse_feature_reply"
    /\ parse_input' = i
    /\ parse_output' = parse_feature_reply(i)
    /\ UNCHANGED <<codec_vars, facade_vars, enum_vars>>

\* the words a value is decoded from: every low word up to 0x1ff under a
\* few high words (the high word stays below 0x8000, within TLC's integers)
WordInputs == {hi * 65536 + lo : hi \in {0, 100, 32767}, lo \in 0..511}

\* the values that are encoded: every named variant, the catch-all
\* variants, and continuous values with val below and above 0xff
EncodableValues ==
    {[ty |-> "OsdLanguages", name |-> OsdLanguageNames[k], a |-> 0, b |-> 0] :
        k \in DOMAIN OsdLanguageNames}
    \cup {[ty |-> "OsdLanguages", name |-> "UndefinedLanguage", a |-> w, b |-> 0] :
            w \in {2, 38, 1000}}
    \cup {[ty |-> "InputSource", name |-> InputSourceNames[k], a |-> 0, b |-> 0] :
            k \in DOMAIN InputSourceNames}
    \cup {[ty |-> "InputSource", name |-> "Reserved", a |-> w, b |-> 0] :
            w \in {0, 17, 19, 255}}
    \cup {[ty |-> "VcpFeatureCode", name |-> n, a |-> 0, b |-> 0] :
            n \in {"CodePage", "NewControlValue", "Luminance", "Contrast",
                   "ActiveControl", "InputSelect", "OsdLanguage", "Unknown"}}
    \cup {[ty |-> "VcpFeatureCode", name |-> "Unimplemented", a |-> w, b |-> 0] :
            w \in {1, 16, 224}}
    \cup {[ty |-> "NewControlValue", name |-> n, a |-> 0, b |-> 0] :
            n \in {"Finished", "NewControlValuesPresent"}}
    \cup {[ty |-> V, name |-> "", a |-> max, b |-> val] :
            V \in {"LuminanceValue", "ContrastValue"},
            max \in {0, 100, 255, 32767}, val \in {0, 50, 255, 256, 300, 65535}}

\* V::from(value), and the word the decoded value encodes to
Call_from_u32(V, value) ==
    /\ parse_fn = "none"
    /\ parse_fn' = "from_u32"
    /\ parse_input' = <<value>>
    /\ parse_output' =
          LET r == from_u32(V, value)
          IN  [ty |-> V, kind |-> r.kind, value |-> r.value,
               word |-> IF r.kind = "Ok" THEN to_u32(r.value) ELSE 0]
    /\ UNCHANGED <<codec_vars, facade_vars, enum_vars>>

\* u32::from(v), and the value that word decodes to
Call_into_u32(v) ==
    /\ parse_fn = "none"
    /\ parse_fn' = "into_u32"
    /\ parse_input' = <<v>>
    /\ parse_output' =
          LET r == from_u32(v.ty, to_u32(v))
          IN  [ty |-> v.ty, kind |-> r.kind, value |-> r.value, word |-> to_u32(v)]
    /\ UNCHANGED <<codec_vars, facade_vars, enum_vars>>

\* capability text as bytes: "(" is 40, ")" 41, " " 32, tab 9, "+" 43
\* entries of a vcp tag
VcpEntryTexts ==
    {<<49, 48>>,
     <<49, 50>>,
     <<54, 48, 40, 48, 70, 32, 49, 48, 32, 49, 49, 41>>,
     <<67, 67, 40, 48, 50, 32, 48, 51, 41>>,
     <<69, 48>>,
     <<69, 48, 40, 48, 49, 41>>,
     <<49, 48, 40, 48, 48, 32, 48, 49, 41>>,
     <<54, 48>>}
\* "10", "12", "60(0F 10 11)", "CC(02 03)", "E0", "E0(01)", "10(00 01)", "60"

\* contents with other spacing, and contents that are not well formed
OddVcpTexts ==
    {<<32, 49, 48, 32, 32, 49, 50, 32>>,
     <<54, 48, 32, 40, 32, 48, 70, 32, 41>>,
     <<49, 48, 9, 49, 50>>,
     <<49, 48, 49, 50>>,
     <<>>,
     <<54, 48, 40, 48, 70>>,
     <<54, 48, 40, 48, 70, 32, 49, 41>>,
     <<49>>,
     <<49, 71>>,
     <<49, 48, 32, 49, 50, 41>>,
     <<43, 65>>,
     <<99, 99, 40, 50, 54, 41>>,
     <<54, 48, 40, 41>>,
     <<54, 48, 40, 48, 102, 32, 48, 48, 32, 49, 51, 41>>}

\* entries one vcp tag may hold
MaxEntries == 3

\* the contents made of at most n entries, one space between two
RECURSIVE EntryLists(_)
EntryLists(n) ==
    IF n = 0 THEN {<<>>}
    ELSE LET shorter == EntryLists(n - 1)
         IN  shorter
             \cup {IF l = <<>> THEN e ELSE l \o <<32>> \o e :
                     l \in shorter, e \in VcpEntryTexts}

\* the well-formed contents
WellFormedVcpTexts == EntryLists(MaxEntries)

VcpTexts == WellFormedVcpTexts \cup OddVcpTexts

\* the tags an entry is handed to parse_string with
CapabilityTags == {"vcp", "VCP", "cmds", "model", "vendor"}

\* the contents a tag is given: entry lists for the vcp tags, single entries
\* and irregular contents for every tag
TextsOf(tag) ==
    IF tag \in {"vcp", "VCP"} THEN VcpTexts ELSE VcpEntryTexts \cup OddVcpTexts

\* parse_capabilities on a string of one entry tag(i)
Call_parse_string(tag, i) ==
    /\ parse_fn = "none"
    /\ parse_fn' = "parse_string"
    /\ parse_input' = i
    /\ parse_output' = vcp_features_of(tag, i)
    /\ UNCHANGED <<codec_vars, facade_vars, enum_vars>>

\* the caller is done with the result
Discard ==
    /\ parse_fn # "none"
    /\ parse_fn' = "none"
    /\ parse_input' = <<>>
    /\ parse_output' = [kind |-> "none"]
    /\ UNCHANGED <<codec_vars, facade_vars, enum_vars>>

NextParse ==
    \/ \E i \in HeaderInputs : Call_parse_header(i)
    \/ \E i \in DescriptorInputs : Call_parse_descriptor(i)
    \/ \E i \in TimingInputs : Call_parse_detailed_timing(i)
    \/ \E full_input \in EdidInputs : Call_parse_edid(full_input)
    \/ \E i \in FeatureReplyInputs : Call_parse_feature_reply(i)
    \/ \E V \in ValueTypes, value \in WordInputs : Call_from_u32(V, value)
    \/ \E v \in EncodableValues : Call_into_u32(v)
    \/ \E tag \in CapabilityTags : \E i \in TextsOf(tag) : Call_parse_string(tag, i)
    \/ Discard

SpecParse == Init /\ [][NextParse]_vars

---------------------------------------------------------------------------
(* lib.rs and ddc/linux.rs: Monitor::enumerate(), pulled by a for loop      *)
(* ("for monitor in Monitor::enumerate() { .. }") until it returns None.    *)

\* the devices one enumeration finds at most
MaxDevices == 4

\* what read_edid of a device does: it returns the Edid, fails to open or
\* read the edid file, or fails to parse the block
EdidOutcomes == {"Ok", "IoError", "ParseError"}

\* LinuxDdcDevice::new(id, drm_device); edid is what read_edid will return
LinuxDdcDevice(i2c_sysnum, edid) == [i2c_sysnum |-> i2c_sysnum, edid |-> edid]

\* LinuxDdcDeviceEnumerator::iter(): the filtered i2c devices, each with a
\* sysnum (the filter keeps no other), in the order udev scans them
DeviceLists ==
    UNION {{[k \in 1..n |-> LinuxDdcDevice(k + 2, f[k])] : f \in [1..n -> EdidOutcomes]} :
            n \in 0..MaxDevices}

\* LinuxDdcDeviceEnumerator::next on the devices left: the item it returns
LinuxDdcDeviceEnumerator_next(devices) ==
    IF devices = <<>> THEN None ELSE Some(Head(devices))

\* MonitorDevice::new(handle).ok(): the device when read_edid succeeds
MonitorDevice_new(handle) ==
    IF handle.edid = "Ok"
    THEN Some([handle |-> handle, info |-> handle.edid])
    ELSE None

\* Monitor::enumerate()
Monitor_enumerate(devices) ==
    /\ enum_pc = "none"
    /\ enum_pc' = "iterating"
    /\ attached' = devices
    /\ inner_iter' = devices
    /\ monitors' = <<>>
    /\ UNCHANGED <<codec_vars, facade_vars, parse_vars>>

\* MonitorIterator::next, pulled by the loop:
\* inner_iter.next().and_then(|dev| MonitorDevice::new(dev).ok())
MonitorIterator_next ==
    /\ enum_pc = "iterating"
    /\ LET dev == LinuxDdcDeviceEnumerator_next(inner_iter)
           r == IF dev # None THEN MonitorDevice_new(dev[1]) ELSE None
       IN  /\ inner_iter' = IF dev # None THEN Tail(inner_iter) ELSE inner_iter
           /\ IF r # None
              THEN monitors' = Append(monitors, r[1]) /\ UNCHANGED enum_pc
              ELSE enum_pc' = "ended" /\ UNCHANGED monitors
    /\ UNCHANGED attached
    /\ UNCHANGED <<codec_vars, facade_vars, parse_vars>>

\* the loop is over and the iterator dropped
EnumerationOver ==
    /\ enum_pc = "ended"
    /\ enum_pc' = "none"
    /\ attached' = <<>>
    /\ inner_iter' = <<>>
    /\ monitors' = <<>>
    /\ UNCHANGED <<codec_vars, facade_vars, parse_vars>>

NextEnumerate ==
    \/ \E devices \in DeviceLists : Monitor_enumerate(devices)
    \/ MonitorIterator_next
    \/ EnumerationOver

SpecEnumerate == Init /\ [][NextEnumerate]_vars

---------------------------------------------------------------------------
(* Claims about the framer, checked under SpecCodec *)

\* the virtual destination of a frame whose first wire byte is t
VirtualDestination(t) == IF t = 111 THEN 80 ELSE t

\* C1: every message the constructors and builder calls produce is returned,
\* equal, by parse_buffer applied to its wire form
\* (the target byte followed by transmit_buffer()).
C1_RoundTrip ==
    (phase = "parsed" /\ origin = "encoded")
        => (parsed.kind = "Ok" /\ parsed.msg = msg)

\* the opcode, feature, offset and data bytes of a message, in wire order
FieldBytes(m) ==
    (IF m.opcode = <<>> THEN <<>> ELSE <<OpcodeToU8(m.opcode[1])>>)
        \o (IF m.vcp_feature = <<>> THEN <<>> ELSE <<FeatureToU8(m.vcp_feature[1])>>)
        \o (IF m.offset = <<>> THEN <<>>
            ELSE <<m.offset[1] \div 256, m.offset[1] % 256>>)
        \o [i \in 1..m.data_length |-> m.data[i]]

\* C2: transmit_buffer() is [sender, 0x80|n, opcode?, feature?, offset high,
\* offset low, data..., checksum] with n the number of field bytes and the
\* checksum the XOR of the virtual destination with every preceding byte;
\* SetVcp of Luminance with data [0x00, 0x32] is
\* [0x51, 0x84, 0x03, 0x10, 0x00, 0x32, 0x9A].
C2_TransmitLayout ==
    (phase = "wire" /\ origin = "encoded") =>
        LET tb == Tail(buf)
            fields == FieldBytes(msg)
            front == <<msg.sender, 128 + Len(fields)>> \o fields
        IN  /\ tb = Append(front, FoldXor(VirtualDestination(msg.target), front))
            /\ (/\ msg.opcode = <<Op("SetVcp")>>
                /\ msg.vcp_feature = <<Feature("Luminance")>>
                /\ msg.offset = <<>>
                /\ FieldBytes(msg) = <<3, 16, 0, 50>>)
                  => tb = <<81, 132, 3, 16, 0, 50, 154>>

C2_Witness ==
    /\ phase = "wire" /\ origin = "encoded"
    /\ buf = <<110, 81, 132, 3, 16, 0, 50, 154>>

\* C3: the null response, prefixed with (addr() << 1) | 1, is the four bytes
\* [0x6F, 0x6E, 0x80, 0xBE], and parse_buffer of those bytes returns a
\* message equal to NullResponse().
C3_NullResponseWire ==
    /\ (phase \in {"wire", "parsed"} /\ origin = "response"
            /\ msg.opcode = <<>> /\ built = "ok")
          => buf = <<111, 110, 128, 190>>
    /\ (phase = "parsed" /\ buf = <<111, 110, 128, 190>>)
          => (parsed.kind = "Ok" /\ parsed.msg = NullResponse
              /\ parsed.msg.target = 111 /\ parsed.msg.sender = 110
              /\ parsed.msg.opcode = <<>> /\ parsed.msg.data_length = 0)

C3_Witness ==
    /\ phase = "parsed" /\ origin = "response" /\ built = "ok"
    /\ msg.opcode = <<>>
    /\ parsed.kind = "Ok"

\* C4 as stated: for every buffer that parse_buffer accepts, the checksum
\* byte of the re-encoded message equals the buffer's last byte.
C4_ChecksumIsLastByte ==
    (phase = "parsed" /\ parsed.kind = "Ok")
        => transmit_buffer(parsed.msg)[Len(transmit_buffer(parsed.msg))]
              = buf[Len(buf)]

\* C4 amended: for every buffer that parse_buffer accepts, the checksum byte
\* of the re-encoded message equals the buffer's byte that follows the
\* declared bytes (index 3 + length, counting the target byte as index 0).
C4_ChecksumAtDeclaredEnd ==
    (phase = "parsed" /\ parsed.kind = "Ok")
        => /\ Len(buf) >= 4 + (buf[3] % 128)
           /\ transmit_buffer(parsed.msg)[Len(transmit_buffer(parsed.msg))]
                 = buf[4 + (buf[3] % 128)]

C4_Witness ==
    /\ phase = "parsed" /\ parsed.kind = "Ok" /\ origin = "monitor"
    /\ Len(buf) = 64
    /\ parsed.msg.data_length > 0

\* C5: with the third byte's top bit clear and not 0x06 parse_buffer returns
\* InvalidMessageFormat; with the top bit set (and the declared bytes and a
\* checksum byte present) it returns Ok when the byte after the declared
\* bytes is the XOR checksum of the frame, and InvalidChecksum otherwise.
C5_ParseOutcomes ==
    (phase = "parsed" /\ Len(buf) >= 3) =>
        /\ (buf[3] < 128 /\ buf[3] # 6) => parsed.kind = "InvalidMessageFormat"
        /\ (buf[3] >= 128 /\ Len(buf) >= 4 + (buf[3] - 128)) =>
              LET length == buf[3] - 128
                  sum == FoldXor(VirtualDestination(buf[1]),
                                 SubSeq(buf, 2, 3 + length))
              IN  IF buf[4 + length] = sum
                  THEN parsed.kind = "Ok"
                  ELSE parsed.kind = "InvalidChecksum"

\* C6 as stated: set_data rejects more than 32 bytes with InvalidLength and
\* otherwise stores exactly the bytes given, and every message parse_buffer
\* returns has at most 32 data bytes.
C6_PayloadAtMost32 ==
    /\ built = "ok" =>
          (Len(last_data) <= 32 /\ get_data(msg) = last_data
           /\ get_data_len(msg) = Len(last_data))
    /\ built = "InvalidLength" => Len(last_data) > 32
    /\ (phase = "parsed" /\ parsed.kind = "Ok")
          => get_data_len(parsed.msg) <= 32

\* C6 amended: set_data rejects more than 32 bytes with InvalidLength and
\* otherwise stores exactly the bytes given; a message parse_buffer returns
\* has at most 36 data bytes.
C6_PayloadBounds ==
    /\ built = "ok" =>
          (Len(last_data) <= 32 /\ get_data(msg) = last_data
           /\ get_data_len(msg) = Len(last_data))
    /\ built = "InvalidLength" => Len(last_data) > 32
    /\ (phase = "parsed" /\ parsed.kind = "Ok")
          => get_data_len(parsed.msg) <= 36

C6_Witness ==
    /\ phase = "parsed" /\ parsed.kind = "Ok"
    /\ get_data_len(parsed.msg) = 36

---------------------------------------------------------------------------
(* Claims about the facade, checked under Spec *)

Transmits(l) == SelectSeq(l, LAMBDA c : c.call = "transmit")
Receives(l) == SelectSeq(l, LAMBDA c : c.call = "receive")

\* the null response as a value: no opcode, no feature, no offset, no data,
\* sent by 0x6E to 0x6F
IsNullMessage(m) ==
    /\ m.target = 111 /\ m.sender = 110
    /\ m.opcode = <<>> /\ m.vcp_feature = <<>> /\ m.offset = <<>>
    /\ m.data_length = 0
    /\ \A j \in DOMAIN m.data : m.data[j] = 0

\* every transport call of the operation went through and every reply parsed
FinalReplyReached ==
    /\ pc = "done"
    /\ Len(replies) >= 1
    /\ Len(log) = 3 * Len(replies)

\* C7: in get_vcp_feature the request is sent again only while the latest
\* reply is the null response, and at most three times: a call makes at most
\* four transmit/delay/receive exchanges, every exchange after the first
\* follows a null reply, and a call that ends on a null reply has made all
\* four.
C7_RetryOnlyOnNull ==
    op = "get_vcp_feature" =>
        /\ Len(Transmits(log)) <= 4
        /\ Len(Receives(log)) <= 4
        /\ \A k \in 2..Len(Transmits(log)) :
                /\ k - 1 <= Len(replies)
                /\ IsNullMessage(replies[k - 1])
                /\ Transmits(log)[k] = Transmits(log)[1]
        /\ \A k \in 1..(Len(replies) - 1) : IsNullMessage(replies[k])
        /\ (FinalReplyReached /\ IsNullMessage(replies[Len(replies)]))
                => Len(replies) = 4
        /\ (pc = "gv_transmit") => IsNullMessage(reply)

C7_Witness ==
    /\ op = "get_vcp_feature"
    /\ FinalReplyReached
    /\ Len(replies) = 3
    /\ IsNullMessage(replies[2])
    /\ ~IsNullMessage(replies[3])
    /\ result.kind = "Ok"

\* a VcpReply payload [rc, code, type, MH, ML, VH, VL] a feature reply can be
\* read from
WellFormedPayload(m) ==
    /\ m.data_length >= 7
    /\ m.data[1] \in {0, 1}
    /\ m.data[3] \in {0, 1}

ReplyWord(m) ==
    (m.data[4] * 16777216) + (m.data[5] * 65536) + (m.data[6] * 256) + m.data[7]

\* the word as a value of type V, for the words each V has a value for
Converted(V, w) ==
    CASE V = "LuminanceValue" ->
            [ty |-> V, name |-> "", a |-> w \div 65536, b |-> w % 256]
      [] V = "NewControlValue" ->
            [ty |-> V,
             name |-> IF w % 16 = 1 THEN "Finished" ELSE "NewControlValuesPresent",
             a |-> 0, b |-> 0]
      [] V = "VcpFeatureCode" ->
            [ty |-> V, name |-> U8ToFeature(w % 256).code,
             a |-> U8ToFeature(w % 256).byte, b |-> 0]
      [] OTHER -> from_u32(V, w).value

\* C8: get_vcp_feature fails with UnexpectedReplyCode whenever the final
\* reply's opcode is not VcpReply (a null response left after the retries
\* included), fails with UnsupportedVcpFeature when the reply's result code
\* is UnsupportedCode, and otherwise returns the reply's 32-bit value
\* (MH<<24 | ML<<16 | VH<<8 | VL) converted to V.
C8_GetVcpOutcome ==
    (op = "get_vcp_feature" /\ FinalReplyReached) =>
        LET r == replies[Len(replies)] IN
        /\ r.opcode # <<Op("VcpReply")>>
            => (result.kind = "Err" /\ result.err = "UnexpectedReplyCode")
        /\ (r.opcode = <<Op("VcpReply")>> /\ WellFormedPayload(r) /\ r.data[1] = 1)
            => (result.kind = "Err" /\ result.err = "UnsupportedVcpFeature")
        /\ (r.opcode = <<Op("VcpReply")>> /\ WellFormedPayload(r) /\ r.data[1] = 0)
            => (result.kind = "Ok" /\ result.value = Converted(vtype, ReplyWord(r)))

RECURSIVE SumLens(_, _)
SumLens(rs, k) == IF k = 0 THEN 0 ELSE SumLens(rs, k - 1) + rs[k].data_length

RECURSIVE ConcatData(_, _)
ConcatData(rs, k) ==
    IF k = 0 THEN <<>>
    ELSE ConcatData(rs, k - 1) \o SubSeq(rs[k].data, 1, rs[k].data_length)

\* a CapabilitiesRequest on the wire: 0x51, 0x80 | 3, 0xF3, the offset high
\* and low, the XOR of the destination 0x6E and of these bytes
CapabilitiesRequestFrame(o) ==
    LET front == <<81, 131, 243, o \div 256, o % 256>>
    IN  Append(front, FoldXor(110, front))

PayloadLens(rs) == [k \in 1..Len(rs) |-> rs[k].data_length]

WireOffset(c) == (c.data[4] * 256) + c.data[5]

\* C9: read_capabilities sends CapabilitiesRequest frames whose offset is 0
\* for the first request and, for each later one, the sum of the data lengths
\* of all replies received so far; it stops at the first reply with
\* zero-length data and parses exactly the concatenation, in order, of the
\* non-empty payloads.  With replies of payload length 32, 32, 0 it sends
\* exactly three requests, with offsets 0, 32, 64, and uses the
\* concatenation of the first two payloads.
C9_CapabilityOffsets ==
    op = "read_capabilities" =>
        LET tx == Transmits(log) IN
        /\ Len(tx) <= Len(replies) + 1
        /\ \A k \in 1..Len(tx) :
                /\ tx[k].addr = 55
                /\ tx[k].data = CapabilitiesRequestFrame(SumLens(replies, k - 1))
        /\ \A k \in 1..(Len(replies) - 1) : replies[k].data_length # 0
        /\ (Len(replies) >= 1 /\ replies[Len(replies)].data_length = 0)
                => (pc = "done" /\ Len(tx) = Len(replies))
        /\ (pc = "done" /\ (result.kind = "Ok" \/ result.err = "ReadDataError"))
                => /\ FinalReplyReached
                   /\ replies[Len(replies)].data_length = 0
                   /\ result.text = ConcatData(replies, Len(replies))
        /\ (FinalReplyReached /\ PayloadLens(replies) = <<32, 32, 0>>)
                => /\ Len(tx) = 3
                   /\ <<WireOffset(tx[1]), WireOffset(tx[2]), WireOffset(tx[3])>>
                        = <<0, 32, 64>>
                   /\ result.text = SubSeq(replies[1].data, 1, 32)
                                        \o SubSeq(replies[2].data, 1, 32)

C9_Witness ==
    /\ op = "read_capabilities"
    /\ FinalReplyReached
    /\ PayloadLens(replies) = <<32, 32, 0>>
    /\ result.kind = "Ok"
    /\ Len(result.text) = 64
    /\ result.text[1] # result.text[33]

\* C10: in every facade operation that reads a reply, each receive call is
\* immediately preceded by a delay call that is immediately preceded by a
\* transmit call of the request, in the first exchange, in every null-reply
\* retry and in every capability fragment iteration; the delay is 40 ms in
\* get_vcp_feature and 50 ms in read_capabilities.
C10_TransmitDelayReceive ==
    \A i \in 1..Len(log) :
        log[i].call = "receive" =>
            /\ i >= 3
            /\ log[i - 1].call = "delay"
            /\ log[i - 1].ms = (IF op = "get_vcp_feature" THEN 40 ELSE 50)
            /\ log[i - 2].call = "transmit"
            /\ log[i - 2].addr = log[i].addr
            /\ log[i - 2].data[1] = 81
            /\ log[i - 2].data[3] = (IF op = "get_vcp_feature" THEN 1 ELSE 243)
            /\ op \in {"get_vcp_feature", "read_capabilities"}

C10_Witness ==
    /\ op = "read_capabilities"
    /\ Len(Receives(log)) = 3
    /\ log[9].call = "receive"
    /\ log[8].ms = 50
    /\ replies[1].data_length # 0

\* the SetVcp frame of a value: 0x51, 0x80 | 4, 0x03, the feature code, the
\* high and the low byte of the current value, the XOR checksum
C11_SetVcpFrame(v) ==
    LET code == CASE v.ty = "LuminanceValue" -> 16
                  [] v.ty = "NewControlValue" -> 2
                  [] v.ty = "InputSource" -> 96
        cur  == CASE v.ty = "LuminanceValue" -> v.b
                  [] v.ty = "NewControlValue" -> 1
                  [] v.ty = "InputSource" -> 17
        front == <<81, 132, 3, code, cur \div 256, cur % 256>>
    IN  Append(front, FoldXor(110, front))

\* C11: set_vcp_feature and save_current_settings only send.
\* set_vcp_feature makes exactly one transmit, of a SetVcp frame with the
\* value's feature code and the data [vh, vl] (MH and ML are not sent),
\* then one delay of 50 ms, and never calls receive;
\* save_current_settings makes exactly one transmit and calls neither
\* delay nor receive.
C11_SendOnly ==
    /\ op = "set_vcp_feature" =>
        /\ Len(log) <= 2
        /\ \A i \in 1..Len(log) : log[i].call # "receive"
        /\ Len(log) >= 1 =>
              log[1] = [call |-> "transmit", addr |-> 55,
                        data |-> C11_SetVcpFrame(arg), ms |-> 0]
        /\ Len(log) = 2 => log[2] = [call |-> "delay", addr |-> 0,
                                     data |-> <<>>, ms |-> 50]
        /\ pc = "done" => Len(log) >= 1
        /\ (pc = "done" /\ result.kind = "Ok") => Len(log) = 2
    /\ op = "save_current_settings" =>
        /\ Len(log) <= 1
        /\ Len(log) = 1 =>
              log[1] = [call |-> "transmit", addr |-> 55,
                        data |-> <<81, 129, 12, FoldXor(110, <<81, 129, 12>>)>>,
                        ms |-> 0]
        /\ pc = "done" => Len(log) = 1

C11_Witness ==
    /\ op = "set_vcp_feature"
    /\ pc = "done"
    /\ result.kind = "Ok"
    /\ arg.ty = "LuminanceValue"
    /\ arg.b = 300
    /\ log[1].data[5] = 1
    /\ log[1].data[6] = 44

\* the errors a transport call or a frame parse ends an operation with
C12_TransportErrors == {"TransmitError", "ReceiveError"}
C12_FrameErrors ==
    {"ProtocolError(InvalidChecksum)", "ProtocolError(InvalidMessageFormat)",
     "ProtocolError(ParserError)"}

\* a receive call the operation got no parsed reply from
C12_FailedReceive == Len(Receives(log)) # Len(replies)

\* C12: when a transmit, a receive or a frame parse fails inside
\* get_vcp_feature, set_vcp_feature, save_current_settings or
\* read_capabilities, the operation returns that error at once, with no
\* retry and no further transport call: the failed call is the last one of
\* the operation, at most one call fails, and the operation has ended.  A
\* failure in any fragment of read_capabilities ends the whole read, and the
\* error carries none of the capability data read before it.
C12_ErrorsReturnAtOnce ==
    op \in {"get_vcp_feature", "set_vcp_feature", "save_current_settings",
            "read_capabilities"} =>
        /\ Len(replies) <= Len(Receives(log))
        /\ Len(Receives(log)) <= Len(replies) + 1
        /\ C12_FailedReceive =>
              /\ pc = "done"
              /\ log[Len(log)].call = "receive"
              /\ result.kind \in {"Err", "Abort"}
              /\ result.kind = "Err" =>
                    result.err \in {"ReceiveError"} \cup C12_FrameErrors
        /\ (pc = "done" /\ result.err = "TransmitError") =>
              /\ log[Len(log)].call = "transmit"
              /\ ~C12_FailedReceive
        /\ (pc = "done" /\ result.err = "ReceiveError") => C12_FailedReceive
        /\ (pc = "done" /\ result.err \in C12_FrameErrors
                /\ op = "read_capabilities") => C12_FailedReceive
        /\ pc # "done" => result = NoResult
        /\ (pc = "done" /\ result.kind = "Err"
                /\ result.err \in C12_TransportErrors \cup C12_FrameErrors) =>
              /\ result.value = NoValue
              /\ result.text = <<>>

C12_Witness ==
    /\ op = "read_capabilities"
    /\ pc = "done"
    /\ result.err = "ReceiveError"
    /\ Len(replies) = 2
    /\ Len(capabilities_buffer) = 33
    /\ result.text = <<>>

---------------------------------------------------------------------------
(* Claims about the change-notification iterator, checked under Spec *)

IsQuery(c) == c.fn = "get_vcp_feature" /\ c.ty = "NewControlValue"
IsFifoRead(c) == c.fn = "get_vcp_feature" /\ c.ty = "VcpFeatureCode"
IsWrite(c) == c.fn = "set_vcp_feature"
HasReturned(c) == c.res.kind # "none"
SaysPresent(c) ==
    c.res.kind = "Ok" /\ c.res.value.name = "NewControlValuesPresent"

\* C13: on the first pull of a change-notification iterator the feature
\* NewControlValue is queried once; if the answer is not
\* NewControlValuesPresent the pull returns end-of-sequence without reading
\* ActiveControl and without writing any VCP value.
C13_FirstPullQuery ==
    /\ (first_pull /\ calls # <<>>) =>
          /\ IsQuery(calls[1])
          /\ \A i \in 2..Len(calls) : ~IsQuery(calls[i])
          /\ (HasReturned(calls[1]) /\ ~SaysPresent(calls[1])) =>
                /\ Len(calls) = 1
                /\ item = [kind |-> "None", res |-> NoResult]
                /\ it_pc = "none"
    /\ (~first_pull) => \A i \in 1..Len(calls) : ~IsQuery(calls[i])
    /\ (it_pc \in {"query", "read", "finish", "fetch"}) => calls # <<>>

SaysCodePage(c) ==
    IsFifoRead(c) /\ c.res.kind = "Ok" /\ c.res.value.name = "CodePage"

\* C14: when an ActiveControl (0x52) read returns code 0x00 (CodePage) the
\* iterator writes NewControlValue = Finished (SetVcp, feature 0x02, value
\* 0x01) and that pull returns end-of-sequence; the iterator writes Finished
\* at no other point: every write of a pull is that one, it comes right
\* after a read that returned CodePage, and it is the pull's last call.
C14_FinishedOnCodePage ==
    /\ \A i \in 1..Len(calls) :
          /\ SaysCodePage(calls[i]) =>
                /\ Len(calls) = i + 1
                /\ IsWrite(calls[i + 1])
          /\ IsWrite(calls[i]) =>
                /\ i >= 2
                /\ i = Len(calls)
                /\ SaysCodePage(calls[i - 1])
                /\ calls[i].ty = "NewControlValue"
                /\ calls[i].arg.name = "Finished"
                /\ HasReturned(calls[i]) =>
                      /\ item = [kind |-> "None", res |-> NoResult]
                      /\ it_pc = "none"
    /\ (it_pc = "finish" /\ Len(log) >= 1) =>
          log[1] = [call |-> "transmit", addr |-> 55,
                    data |-> <<81, 132, 3, 2, 0, 1,
                               FoldXor(110, <<81, 132, 3, 2, 0, 1>>)>>,
                    ms |-> 0]
    /\ (it_pc # "none" /\ op = "set_vcp_feature") =>
          (it_pc = "finish" /\ calls # <<>> /\ IsWrite(calls[Len(calls)]))

C14_Witness ==
    /\ it_pc = "none"
    /\ item.kind = "None"
    /\ Len(calls) = 2
    /\ ~first_pull
    /\ SaysCodePage(calls[1])
    /\ IsWrite(calls[2])
    /\ calls[2].res.kind = "Ok"
    /\ op = "set_vcp_feature"
    /\ log[1].data[4] = 2
    /\ log[1].data[6] = 1

\* the value type of each feature the iterator reads a value for
C15_TypeOf(name) ==
    CASE name = "Luminance" -> "LuminanceValue"
      [] name = "Contrast" -> "ContrastValue"
      [] name = "OsdLanguage" -> "OsdLanguages"
      [] name = "InputSelect" -> "InputSource"

\* the byte of a feature code that has no value type here
C15_CodeOf(v) ==
    CASE v.name = "NewControlValue" -> 2
      [] v.name = "ActiveControl" -> 82
      [] v.name = "Unimplemented" -> v.a

\* C15: for each ActiveControl read that returns Luminance, Contrast,
\* OsdLanguage or InputSelect the iterator makes exactly one further
\* get_vcp_feature, for that feature, and yields its typed value; for every
\* other non-zero code it yields Unimplemented(code, 0) without any further
\* transport traffic.
C15_MaterializeKnownCodes ==
    \A i \in 1..Len(calls) :
        (IsFifoRead(calls[i]) /\ calls[i].res.kind = "Ok") =>
            LET v == calls[i].res.value IN
            IF v.name \in {"Luminance", "Contrast", "OsdLanguage", "InputSelect"}
            THEN /\ Len(calls) = i + 1
                 /\ calls[i + 1].fn = "get_vcp_feature"
                 /\ calls[i + 1].ty = C15_TypeOf(v.name)
                 /\ HasReturned(calls[i + 1]) =>
                       /\ item.kind = "Some"
                       /\ item.res.kind = "Ok"
                       /\ item.res.value.ty = C15_TypeOf(v.name)
                       /\ item.res = calls[i + 1].res
            ELSE (v.name # "CodePage") =>
                 /\ Len(calls) = i
                 /\ item = [kind |-> "Some",
                            res |-> [kind |-> "Ok", err |-> "",
                                     value |-> [ty |-> "Unimplemented", name |-> "",
                                                a |-> C15_CodeOf(v), b |-> 0],
                                     text |-> <<>>]]
                 /\ op = "get_vcp_feature" /\ vtype = "VcpFeatureCode"

\* C16: the change-notification sequence is finite per invocation: every
\* sequence obtained from event_iter() returns end-of-sequence after
\* finitely many pulls (a pull that panics ends it too).
C16_SequenceEnds == (it_pc = "ready") ~> (it_pc \in {"none", "aborted"})

\* each new invocation of event_iter() starts again with the NewControlValue
\* query: an iterator that has made no pull yet has started = false, and a
\* pull that begins with started = false begins with the query
C16_RestartsAtQuery ==
    /\ (it_pc = "ready" /\ item.kind = "none" /\ calls = <<>>) => ~started
    /\ (it_pc \in {"query", "read", "finish", "fetch"} /\ first_pull)
          => IsQuery(calls[1])
    /\ (it_pc = "query") => (Len(calls) = 1 /\ first_pull)

---------------------------------------------------------------------------
(* Claims about the parsers, checked under SpecParse *)

\* the unsigned sum of the 128 bytes of the EDID block, modulo 256
BlockSum(i) == wrapping_sum(i, 1, 128)

\* the block has the fixed pattern and all of its 128 bytes
StructurallyValid(i) == Len(i) >= 128 /\ SubSeq(i, 1, 8) = EdidMagic

\* C17: for every input of at least 128 bytes that parse_edid accepts, the
\* 128 bytes of the block sum to 0 modulo 256, and a structurally valid
\* block whose sum is not 0 gives InvalidChecksum
C17_ChecksumRule ==
    (parse_fn = "parse_edid" /\ Len(parse_input) >= 128) =>
        /\ parse_output.kind = "Ok" => BlockSum(parse_input) = 0
        /\ (StructurallyValid(parse_input) /\ BlockSum(parse_input) # 0)
               => parse_output.kind = "InvalidChecksum"

\* the rule of C17 on the slices of exactly 128 bytes
C17_ChecksumRule128 ==
    (parse_fn = "parse_edid" /\ Len(parse_input) = 128) =>
        /\ parse_output.kind = "Ok" => BlockSum(parse_input) = 0
        /\ (StructurallyValid(parse_input) /\ BlockSum(parse_input) # 0)
               => parse_output.kind = "InvalidChecksum"
        /\ (StructurallyValid(parse_input) /\ BlockSum(parse_input) = 0)
               => parse_output.kind = "Ok"

\* a block with a good checksum, followed by more bytes, is refused
C17_GoodBlockRefused ==
    /\ parse_fn = "parse_edid"
    /\ Len(parse_input) > 128
    /\ StructurallyValid(parse_input)
    /\ BlockSum(parse_input) = 0
    /\ parse_output.kind = "InvalidChecksum"

\* the descriptor kind a tag byte stands for
TagKind(tag) ==
    CASE tag = 255 -> "SerialNumber"
      [] tag = 254 -> "UnspecifiedText"
      [] tag = 253 -> "RangeLimits"
      [] tag = 252 -> "ProductName"
      [] tag = 251 -> "WhitePoint"
      [] tag = 250 -> "StandardTiming"
      [] tag = 249 -> "ColorManagement"
      [] tag = 248 -> "TimingCodes"
      [] tag = 247 -> "EstablishedTimings"
      [] tag = 16 -> "Dummy"
      [] OTHER -> "Unknown"

LeadingZero(i) == i[1] = 0 /\ i[2] = 0 /\ i[3] = 0

\* C18: of an 18-byte descriptor whose three leading bytes are zero, the
\* tag byte at offset 3 selects the kind, and any tag outside the list is
\* kept as the raw 13 bytes; other leading bytes make a detailed timing;
\* every descriptor consumes exactly 18 bytes
C18_TagSelectsKind ==
    (parse_fn = "parse_descriptor" /\ Len(parse_input) >= 18) =>
        /\ parse_output.ok
        /\ Len(parse_input) - Len(parse_output.rest) = 18
        /\ IF LeadingZero(parse_input)
           THEN /\ parse_output.val.kind = TagKind(parse_input[4])
                /\ parse_output.val.kind = "Unknown"
                      => parse_output.val.data = SubSeq(parse_input, 6, 18)
           ELSE parse_output.val.kind = "DetailedTiming"

\* what parse_descriptor does: every descriptor with zero leading bytes is
\* kept as the raw 13 bytes, whatever its tag
C18_AlwaysUnknown ==
    (parse_fn = "parse_descriptor" /\ Len(parse_input) >= 18) =>
        /\ parse_output.ok
        /\ Len(parse_input) - Len(parse_output.rest) = 18
        /\ IF LeadingZero(parse_input)
           THEN /\ parse_output.val.kind = "Unknown"
                /\ parse_output.val.data = SubSeq(parse_input, 6, 18)
           ELSE parse_output.val.kind = "DetailedTiming"

\* the 5-bit field of v whose lowest bit is bit lo
Field(v, lo) == (v \div (2 ^ lo)) % 32

\* the big-endian manufacturer code of a header slice
VendorCode(i) == 256 * i[9] + i[10]

\* the general rule of C19: the three 5-bit fields at bits 14..10, 9..5 and
\* 4..0, each the letter with code field + 0x40
C19_FieldRule ==
    (parse_fn = "parse_header" /\ parse_output.ok) =>
        parse_output.val.vendor =
            <<Field(VendorCode(parse_input), 10) + 64,
              Field(VendorCode(parse_input), 5) + 64,
              Field(VendorCode(parse_input), 0) + 64>>

\* C19 (as stated): the manufacturer code is decoded as three 5-bit fields,
\* each mapped to the letter with ASCII code field + 0x40, and the
\* big-endian code 0x04D9 decodes to "AUS"
C19_VendorDecode_04D9 ==
    /\ C19_FieldRule
    /\ (parse_fn = "parse_header" /\ parse_output.ok
            /\ VendorCode(parse_input) = 1241)
          => parse_output.val.vendor = <<65, 85, 83>>

\* C19 (amended): the same rule; 0x06B3 is the code of "AUS", and 0x04D9
\* decodes to "AFY"
C19_VendorDecode ==
    /\ C19_FieldRule
    /\ (parse_fn = "parse_header" /\ parse_output.ok
            /\ VendorCode(parse_input) = 1715)
          => parse_output.val.vendor = <<65, 85, 83>>
    /\ (parse_fn = "parse_header" /\ parse_output.ok
            /\ VendorCode(parse_input) = 1241)
          => parse_output.val.vendor = <<65, 70, 89>>

\* parse_header has decoded the code 0x06B3
C19_Witness ==
    /\ parse_fn = "parse_header"
    /\ parse_output.ok
    /\ VendorCode(parse_input) = 1715
    /\ parse_output.val.vendor = <<65, 85, 83>>

\* C20: on a 7-byte payload [rc, code, type, MH, ML, VH, VL],
\* parse_feature_reply fails for every rc other than 0x00 and 0x01, and
\* otherwise yields NoError for rc 0x00 and UnsupportedCode for 0x01,
\* SetParameter for type 0x00 and Momentary for 0x01, the feature code of
\* byte 1 and the value (MH<<24)|(ML<<16)|(VH<<8)|VL; the payload
\* [0x00, 0x10, 0x00, 0x00, 0x64, 0x00, 0x32] gives NoError, Luminance,
\* SetParameter and 0x00640032
C20_FeatureReply ==
    (parse_fn = "parse_feature_reply" /\ Len(parse_input) = 7) =>
        LET rc == parse_input[1]
            code == parse_input[2]
            ty == parse_input[3]
            MH == parse_input[4]
            ML == parse_input[5]
            VH == parse_input[6]
            VL == parse_input[7]
        IN  /\ rc \notin {0, 1} => parse_output.kind = "Failure"
            /\ (rc \in {0, 1} /\ ty \in {0, 1}) =>
                  /\ parse_output.kind = "Ok"
                  /\ parse_output.result_code =
                        (IF rc = 0 THEN "NoError" ELSE "UnsupportedCode")
                  /\ parse_output.type_code =
                        (IF ty = 0 THEN "SetParameter" ELSE "Momentary")
                  /\ FeatureToU8(parse_output.vcp_feature) = code
                  /\ code = 16 => parse_output.vcp_feature = Feature("Luminance")
                  /\ parse_output.vcp_data = ((MH * 256 + ML) * 256 + VH) * 256 + VL
            /\ parse_input = <<0, 16, 0, 0, 100, 0, 50>> =>
                  /\ parse_output.result_code = "NoError"
                  /\ parse_output.vcp_feature = Feature("Luminance")
                  /\ parse_output.type_code = "SetParameter"
                  /\ parse_output.vcp_data = 6553650

\* the payload of the example has been parsed
C20_Witness ==
    /\ parse_fn = "parse_feature_reply"
    /\ parse_input = <<0, 16, 0, 0, 100, 0, 50>>
    /\ parse_output.kind = "Ok"
    /\ parse_output.vcp_data = 6553650

\* a type byte other than 0x00 and 0x01 makes the parse fail as well
C20_OtherTypeFails ==
    (parse_fn = "parse_feature_reply" /\ Len(parse_input) = 7
        /\ parse_input[3] \notin {0, 1}) => parse_output.kind = "Failure"

---------------------------------------------------------------------------
(* Claims about the value conversions, checked under SpecParse *)

\* C21: decoding a word into NewControlValue accepts only 0x01 (Finished)
\* and 0x02 (NewControlValuesPresent); every other word is rejected as a
\* protocol violation and decodes to neither
C21_NewControlValueDecode ==
    (parse_fn = "from_u32" /\ parse_output.ty = "NewControlValue") =>
        LET w == parse_input[1] IN
        /\ w = 1 => (parse_output.kind = "Ok" /\ parse_output.value.name = "Finished")
        /\ w = 2 => (parse_output.kind = "Ok"
                        /\ parse_output.value.name = "NewControlValuesPresent")
        /\ w \notin {1, 2} => parse_output.kind = "Err"

\* what the decode does: it looks at the low four bits only, and a word
\* whose low four bits are neither 1 nor 2 aborts the program
C21_LowNibbleDecode ==
    (parse_fn = "from_u32" /\ parse_output.ty = "NewControlValue") =>
        LET w == parse_input[1] IN
        /\ w % 16 = 1 => (parse_output.kind = "Ok" /\ parse_output.value.name = "Finished")
        /\ w % 16 = 2 => (parse_output.kind = "Ok"
                             /\ parse_output.value.name = "NewControlValuesPresent")
        /\ w % 16 \notin {1, 2} => parse_output.kind = "Abort"

ContinuousTypes == {"LuminanceValue", "ContrastValue"}

\* C22: LuminanceValue and ContrastValue encode to the word (max<<16)|val
\* and decode from a word w as max = w>>16 and val = w & 0xff: of the
\* current value only the VL byte is kept, the VH byte is discarded
C22_ContinuousCodec ==
    /\ (parse_fn = "into_u32" /\ parse_output.ty \in ContinuousTypes) =>
          /\ parse_output.word =
                BitOr(parse_input[1].a * 65536, parse_input[1].b)
          /\ parse_output.value.a = parse_input[1].a
          /\ parse_output.value.b = parse_input[1].b % 256
    /\ (parse_fn = "from_u32" /\ parse_output.ty \in ContinuousTypes) =>
          LET w == parse_input[1]
              VL == w % 256
          IN  /\ parse_output.kind = "Ok"
              /\ parse_output.value.a = w \div 65536
              /\ parse_output.value.b = VL
              /\ parse_output.word = (w \div 65536) * 65536 + VL

\* a word with a non-zero VH byte has been decoded
C22_Witness ==
    /\ parse_fn = "from_u32"
    /\ parse_output.ty = "ContrastValue"
    /\ (parse_input[1] \div 256) % 256 # 0
    /\ parse_output.value.b = parse_input[1] % 256
    /\ parse_output.value.a = 100

\* the names of the VcpFeatureCode variants that stand for one code
NamedFeatureCodes ==
    {"CodePage", "NewControlValue", "Luminance", "Contrast", "ActiveControl",
     "InputSelect", "OsdLanguage"}

C23_CatchAllChanges ==
    /\ parse_fn = "into_u32"
    /\ parse_input[1].ty = "VcpFeatureCode"
    /\ parse_output.value # parse_input[1]

---------------------------------------------------------------------------
(* Claims about the capability entries, checked under SpecParse *)

\* the byte two hexadecimal digits stand for
HexPair(hi, lo) == 16 * HexDigit(hi) + HexDigit(lo)

\* the position of the first ")" of a text, 0 when it has none
FirstClose(text) ==
    IF \E k \in DOMAIN text : text[k] = 41
    THEN CHOOSE k \in DOMAIN text :
            text[k] = 41 /\ \A j \in 1..(k - 1) : text[j] # 41
    ELSE 0

\* the entries "HH" and "HH(VV VV ..)" of a text that separates them by
\* one space
RECURSIVE SplitEntries(_)
SplitEntries(text) ==
    IF Len(text) < 2 THEN <<>>
    ELSE LET end == IF Len(text) >= 3 /\ text[3] = 40 THEN FirstClose(text) ELSE 2
         IN  <<SubSeq(text, 1, end)>> \o SplitEntries(SubSeq(text, end + 2, Len(text)))

\* of an entry: its code, whether it has a list, and the listed values
EntryCode(e) == HexPair(e[1], e[2])
HasList(e) == Len(e) > 2
EntryValues(e) ==
    IF HasList(e)
    THEN [k \in 1..((Len(e) - 3) \div 3) |-> HexPair(e[3 * k + 1], e[3 * k + 2])]
    ELSE <<>>

\* the capability kind the claim gives an entry
EntryKind(e) ==
    CASE EntryCode(e) = 204 -> "Language"
      [] EntryCode(e) = 96 -> "DisplayInput"
      [] EntryCode(e) \in {16, 18} -> "Continuous"
      [] OTHER -> IF HasList(e) THEN "UnimplementedDiscrete" ELSE "Unimplemented"

\* the number a discrete option stands for
ValueWord(v) == IF v.ty = "AnonymousVcpValue" THEN v.a ELSE to_u32(v)

ValueWords(values) == [k \in DOMAIN values |-> ValueWord(values[k])]

\* a well-formed vcp or VCP tag has been parsed
VcpTagParsed ==
    /\ parse_fn = "parse_string"
    /\ parse_output.tag \in {"vcp", "VCP"}
    /\ parse_input \in WellFormedVcpTexts

\* "10 12 60(0F 10 11)"
ExampleVcpText ==
    <<49, 48, 32, 49, 50, 32, 54, 48, 40, 48, 70, 32, 49, 48, 32, 49, 49, 41>>

\* the entries become capabilities of the kinds of the claim, one each and
\* in order, with the codes of the entries; the example gives
\* Continuous(Luminance), Continuous(Contrast) and DisplayInput
\* {DisplayPort1, DisplayPort2, Hdmi1}
C24_KindsInOrder ==
    VcpTagParsed =>
        LET entries == SplitEntries(parse_input)
            caps == parse_output.vcp_features
        IN  /\ parse_output.kind = "Ok"
            /\ Len(caps) = Len(entries)
            /\ \A k \in DOMAIN entries :
                  /\ caps[k].kind = EntryKind(entries[k])
                  /\ FeatureToU8(caps[k].code) = EntryCode(entries[k])
            /\ parse_input = ExampleVcpText =>
                  /\ caps[1] = VcpCapability("Continuous", Feature("Luminance"))
                  /\ caps[2] = VcpCapability("Continuous", Feature("Contrast"))
                  /\ caps[3].kind = "DisplayInput"
                  /\ [k \in 1..3 |-> caps[3].values[k].name]
                        = <<"DisplayPort1", "DisplayPort2", "Hdmi1">>

\* C24 (as stated): each entry HH or HH(v1 v2 ...) of a vcp/VCP tag becomes
\* one VcpCapability chosen by its code (0xCC Language, 0x60 DisplayInput,
\* 0x10 and 0x12 Continuous, any other code UnimplementedDiscrete with a
\* list and Unimplemented without), and each inner value is appended in
\* order as a discrete option
C24_EveryValueAppended ==
    /\ C24_KindsInOrder
    /\ VcpTagParsed =>
          \A k \in DOMAIN SplitEntries(parse_input) :
              ValueWords(parse_output.vcp_features[k].values)
                  = EntryValues(SplitEntries(parse_input)[k])

\* C24 (amended): the same kinds, in order; the inner values are appended
\* in order as the options of Language, DisplayInput and
\* UnimplementedDiscrete, and the values listed for 0x10 or 0x12 are dropped
C24_VcpEntries ==
    /\ C24_KindsInOrder
    /\ VcpTagParsed =>
          \A k \in DOMAIN SplitEntries(parse_input) :
              ValueWords(parse_output.vcp_features[k].values)
                  = IF EntryKind(SplitEntries(parse_input)[k]) = "Continuous"
                    THEN <<>>
                    ELSE EntryValues(SplitEntries(parse_input)[k])

\* the example has been parsed, and so has a tag that lists values for 0x10
C24_Witness ==
    /\ VcpTagParsed
    /\ parse_input = ExampleVcpText
    /\ Len(parse_output.vcp_features) = 3
    /\ parse_output.vcp_features[3].kind = "DisplayInput"
    /\ Len(parse_output.vcp_features[3].values) = 3

---------------------------------------------------------------------------
(* Claims about aborts, checked under SpecCodec and Spec *)

\* C25: parse_buffer is total on the bytes of a monitor: for every buffer
\* of 0 to 64 bytes, whatever its length byte, opcode byte and contents, it
\* returns Ok(message) or a DdcCiProtocolError and never aborts
C25_ParseBufferTotal ==
    (phase = "parsed" /\ Len(buf) <= 64) => parsed.kind # "Abort"

\* what parse_buffer does instead: it aborts on exactly three kinds of
\* buffer, a third byte 0x06 (the TimingReply branch), a framed opcode byte
\* 0x09 (ResetVcp), and a declared length that leaves more than 36 data
\* bytes, met before the input runs out
C25_AbortsOnlyOn ==
    (phase = "parsed" /\ parsed.kind = "Abort") =>
        /\ Len(buf) >= 3
        /\ \/ buf[3] = 6
           \/ buf[3] > 128 /\ Len(buf) >= 4 /\ buf[4] = 9
           \/ buf[3] >= 128 + 38 /\ Len(buf) >= 4 + 37

\* the consequence the claim draws, under Spec: get_vcp_feature and
\* read_capabilities return Ok or Err for every reply buffer
C25_FacadeTotal ==
    (op \in {"get_vcp_feature", "read_capabilities"} /\ result.kind # "none")
        => result.kind \in {"Ok", "Err"}

\* C26: a pull of the change-notification iterator never aborts on a failed
\* exchange: when the NewControlValue query, the ActiveControl read or the
\* follow-up read of a changed feature's value fails, the pull completes
\* and reports an Err item or end-of-sequence
C26_PullNeverAborts ==
    /\ it_pc # "aborted"
    /\ item.kind # "Abort"

\* the follow-up read of the latest pull has failed with an error
FollowUpFailed ==
    /\ Len(calls) >= 2
    /\ IsFifoRead(calls[Len(calls) - 1])
    /\ calls[Len(calls) - 1].res.kind = "Ok"
    /\ calls[Len(calls) - 1].res.value.name \in MaterializedFeatures
    /\ calls[Len(calls)].res.kind = "Err"

\* what the pulls do with a failure: a failed query ends the sequence, a
\* failed ActiveControl read is the Err item, a failed follow-up read and an
\* abort inside a facade call abort the pull
C26_FailureOutcomes ==
    item.kind # "none" =>
        LET last == calls[Len(calls)] IN
        /\ (IsQuery(last) /\ last.res.kind = "Err") => item.kind = "None"
        /\ (IsFifoRead(last) /\ last.res.kind = "Err")
              => item = Some_item(last.res)
        /\ FollowUpFailed => item.kind = "Abort"
        /\ last.res.kind = "Abort" => item.kind = "Abort"
        /\ item.kind = "Abort" => (FollowUpFailed \/ last.res.kind = "Abort")

\* the latest pull returned end-of-sequence after it wrote Finished
Drained ==
    /\ it_pc = "none"
    /\ item.kind = "None"
    /\ calls # <<>>
    /\ IsWrite(calls[Len(calls)])

\* C27: the iterator is the machine Idle -> Draining -> Done: after a pull
\* has returned end-of-sequence because the FIFO was drained (Finished
\* written), no later pull on the same iterator reads ActiveControl unless
\* a fresh NewControlValue query has first returned NewControlValuesPresent
C27_QueryAfterDrain ==
    [][(Drained /\ it_pc' \in {"query", "read"}) => it_pc' = "query"]_vars

\* what the iterator does: started is never cleared, so the pull after the
\* drained one reads ActiveControl at once; only a pull that began with
\* started = false makes the query
C27_StartedIsKept ==
    /\ Drained => started
    /\ (it_pc = "read" /\ Len(calls) = 1) => (started /\ IsFifoRead(calls[1]))
    /\ (it_pc = "query") => ~started

---------------------------------------------------------------------------
(* Claims about the replies read_capabilities consumes, checked under Spec *)

IsCapabilitiesReply(r) == r.opcode = <<Op("CapabilitiesReply")>>

\* C28: read_capabilities returns success only if every reply it consumed,
\* the terminating zero-length one included, had opcode CapabilitiesReply: a
\* Null response or a reply with another opcode is never treated as
\* capability data or as the end of the capability string
C28_OnlyCapabilitiesReplies ==
    (op = "read_capabilities" /\ pc = "done" /\ result.kind = "Ok") =>
        \A k \in DOMAIN replies : IsCapabilitiesReply(replies[k])

\* what read_capabilities looks at is the data length alone: whatever the
\* opcodes, the replies with data are the capability text and the first
\* reply without data ends it
C28_LengthAlone ==
    (op = "read_capabilities" /\ pc = "done" /\ result.kind = "Ok") =>
        /\ replies # <<>>
        /\ replies[Len(replies)].data_length = 0
        /\ \A k \in 1..(Len(replies) - 1) : replies[k].data_length # 0
        /\ result.text = ConcatData(replies, Len(replies))

\* a read that succeeded although a reply of another opcode carried text and
\* a Null response ended it
C28_ForeignRepliesAccepted ==
    /\ op = "read_capabilities" /\ pc = "done" /\ result.kind = "Ok"
    /\ Len(replies) >= 2
    /\ ~IsCapabilitiesReply(replies[1])
    /\ replies[1].data_length > 0
    /\ replies[Len(replies)].opcode = <<>>

---------------------------------------------------------------------------
(* Claims about the detailed timing, checked under SpecParse *)

\* parse_detailed_timing has returned a timing
TimingParsed ==
    /\ parse_fn = "parse_detailed_timing"
    /\ parse_output.ok

\* C29: parse_detailed_timing yields pixel_clock = 10 x the little-endian
\* 16-bit clock field, without overflow in 32 bits, and every composed field
\* stays within its VESA width: below 4096 for the horizontal and vertical
\* active, blanking and image size, below 1024 for the horizontal front
\* porch and sync width, below 64 for the vertical front porch and sync
\* width
C29_TimingWidths ==
    TimingParsed =>
        LET t == parse_output.val IN
        /\ t.pixel_clock = 10 * (parse_input[1] + 256 * parse_input[2])
        /\ t.pixel_clock <= 655350
        /\ t.horizontal_active_pixels < 4096
        /\ t.horizontal_blanking_pixels < 4096
        /\ t.vertical_active_lines < 4096
        /\ t.vertical_blanking_lines < 4096
        /\ t.horizontal_size < 4096
        /\ t.vertical_size < 4096
        /\ t.horizontal_front_porch < 1024
        /\ t.horizontal_sync_width < 1024
        /\ t.vertical_front_porch < 64
        /\ t.vertical_sync_width < 64

\* what the parser composes for the two vertical fields: the low four bits
\* from the nibble of vertical_lo and the two high bits at bits 8 and 9,
\* bits 4 to 7 always clear; every other width of the claim holds
C29_VerticalPorchSync ==
    TimingParsed =>
        LET t == parse_output.val
            vertical_lo == parse_input[11]
            porch_sync_hi == parse_input[12]
        IN  /\ t.pixel_clock = 10 * (parse_input[1] + 256 * parse_input[2])
            /\ t.horizontal_active_pixels < 4096
            /\ t.horizontal_blanking_pixels < 4096
            /\ t.vertical_active_lines < 4096
            /\ t.vertical_blanking_lines < 4096
            /\ t.horizontal_size < 4096
            /\ t.vertical_size < 4096
            /\ t.horizontal_front_porch < 1024
            /\ t.horizontal_sync_width < 1024
            /\ t.vertical_front_porch
                  = (vertical_lo \div 16) + 256 * ((porch_sync_hi \div 4) % 4)
            /\ t.vertical_sync_width
                  = (vertical_lo % 16) + 256 * (porch_sync_hi % 4)

---------------------------------------------------------------------------
(* Claims about the enumeration, checked under SpecEnumerate *)

\* the devices whose EDID read succeeds, in order
Readable(devices) == SelectSeq(devices, LAMBDA d : d.edid = "Ok")

Handles(ms) == [k \in DOMAIN ms |-> ms[k].handle]

\* C30: iterating Monitor::enumerate() yields a MonitorDevice for every
\* underlying device whose EDID read succeeds, in order, whether or not an
\* earlier device failed to initialise: a failing device is skipped and
\* does not end the iteration
C30_FailingDeviceSkipped ==
    enum_pc = "ended" => Handles(monitors) = Readable(attached)

\* the devices before the first one whose EDID read fails
RECURSIVE UntilFirstFailure(_)
UntilFirstFailure(devices) ==
    IF devices = <<>> \/ Head(devices).edid # "Ok" THEN <<>>
    ELSE <<Head(devices)>> \o UntilFirstFailure(Tail(devices))

\* what the loop is given: the devices before the first failing one; the
\* pull of the failing device returns None, which ends the loop with the
\* devices behind it still in the inner iterator
C30_EndsAtFirstFailure ==
    enum_pc = "ended" =>
        /\ Handles(monitors) = UntilFirstFailure(attached)
        /\ Len(inner_iter) = Len(attached)
              - (IF Len(monitors) < Len(attached) THEN Len(monitors) + 1
                 ELSE Len(monitors))

\* a loop that ended at a failing device although a readable one was left
C30_ReadableDeviceLost ==
    /\ enum_pc = "ended"
    /\ inner_iter # <<>>
    /\ Readable(inner_iter) # <<>>

====
